---------------------------- MODULE Spec2Model ----------------------------
(***************************************************************************)
(* Trip validation, deduplication and merge logic of the TripMind backend *)
(* (backend/app/agents/tools.py), modelled as a state machine over the    *)
(* trips table.                                                            *)
(*                                                                         *)
(* Encoding of Python values:                                              *)
(*   - Optional[T]: None is <<>>, a present value v is <<v>>.              *)
(*   - a destination string is a sequence of one-character strings, so    *)
(*     that strip(), lower() and isdigit() are computed, not assumed.      *)
(*   - a date string is a record [kind, y, m, d, h] naming its syntactic  *)
(*     shape: "iso" (YYYY-MM-DD), "isoT" (YYYY-MM-DDTHH:00:00), "isoZ"    *)
(*     (the same with a trailing Z), "isoOffset" (with +00:00), "nopad"   *)
(*     (YYYY-M-D, no zero padding), "text" (free text), "empty" ("").     *)
(*   - a budget is an integer number of cents (a float with two decimals). *)
(***************************************************************************)
EXTENDS Integers, Sequences, FiniteSets, TLC

VARIABLES trips, next_id, clock, last, inflight

vars == <<trips, next_id, clock, last, inflight>>

\* ------------------------------------------------------------------------
\* Python values
\* ------------------------------------------------------------------------

None == <<>>

Some(v) == <<v>>

\* ------------------------------------------------------------------------
\* str methods used on the destination
\* ------------------------------------------------------------------------

Whitespace == {" ", "\t", "\n"}

Digits == {"0", "1", "2", "3", "4", "5", "6", "7", "8", "9"}

\* str.lower() and str.upper(), letter by letter
ToLower ==
  [
    A |-> "a", B |-> "b", C |-> "c", D |-> "d", E |-> "e", F |-> "f",
    G |-> "g", H |-> "h", I |-> "i", J |-> "j", K |-> "k", L |-> "l",
    M |-> "m", N |-> "n", O |-> "o", P |-> "p", Q |-> "q", R |-> "r",
    S |-> "s", T |-> "t", U |-> "u", V |-> "v", W |-> "w", X |-> "x",
    Y |-> "y", Z |-> "z"
  ]

ToUpper ==
  [
    a |-> "A", b |-> "B", c |-> "C", d |-> "D", e |-> "E", f |-> "F",
    g |-> "G", h |-> "H", i |-> "I", j |-> "J", k |-> "K", l |-> "L",
    m |-> "M", n |-> "N", o |-> "O", p |-> "P", q |-> "Q", r |-> "R",
    s |-> "S", t |-> "T", u |-> "U", v |-> "V", w |-> "W", x |-> "X",
    y |-> "Y", z |-> "Z"
  ]

lower_char(c) == IF c \in DOMAIN ToLower THEN ToLower[c] ELSE c

upper_char(c) == IF c \in DOMAIN ToUpper THEN ToUpper[c] ELSE c

RECURSIVE lower(_)
lower(s) ==
  IF s = <<>> THEN <<>> ELSE <<lower_char(Head(s))>> \o lower(Tail(s))

RECURSIVE upper(_)
upper(s) ==
  IF s = <<>> THEN <<>> ELSE <<upper_char(Head(s))>> \o upper(Tail(s))

RECURSIVE lstrip(_)
lstrip(s) ==
  IF s # <<>> /\ Head(s) \in Whitespace THEN lstrip(Tail(s)) ELSE s

RECURSIVE rstrip(_)
rstrip(s) ==
  IF s # <<>> /\ s[Len(s)] \in Whitespace
  THEN rstrip(SubSeq(s, 1, Len(s) - 1))
  ELSE s

strip(s) == rstrip(lstrip(s))

remove_spaces(s) == SelectSeq(s, LAMBDA c : c # " ")

isdigit(s) == s # <<>> /\ \A i \in 1..Len(s) : s[i] \in Digits

\* ------------------------------------------------------------------------
\* Validation constants
\* ------------------------------------------------------------------------

INVALID_DESTINATIONS ==
  {
    <<"m","o","o","n">>,
    <<"t","h","e"," ","m","o","o","n">>,
    <<"m","a","r","s">>,
    <<"j","u","p","i","t","e","r">>,
    <<"s","a","t","u","r","n">>,
    <<"v","e","n","u","s">>,
    <<"m","e","r","c","u","r","y">>,
    <<"n","e","p","t","u","n","e">>,
    <<"u","r","a","n","u","s">>,
    <<"p","l","u","t","o">>,
    <<"s","p","a","c","e">>,
    <<"o","u","t","e","r"," ","s","p","a","c","e">>,
    <<"t","h","e"," ","s","u","n">>,
    <<"m","i","l","k","y"," ","w","a","y">>,
    <<"g","a","l","a","x","y">>,
    <<"a","s","t","e","r","o","i","d">>,
    <<"i","s","s">>,
    <<"i","n","t","e","r","n","a","t","i","o","n","a","l"," ","s","p","a","c","e"," ","s","t","a","t","i","o","n">>,
    <<"h","o","g","w","a","r","t","s">>,
    <<"n","a","r","n","i","a">>,
    <<"m","i","d","d","l","e"," ","e","a","r","t","h">>,
    <<"t","h","e"," ","s","h","i","r","e">>,
    <<"m","o","r","d","o","r">>,
    <<"g","o","n","d","o","r">>,
    <<"r","i","v","e","n","d","e","l","l">>,
    <<"d","i","a","g","o","n"," ","a","l","l","e","y">>,
    <<"h","o","g","s","m","e","a","d","e">>,
    <<"n","e","v","e","r","l","a","n","d">>,
    <<"o","z">>,
    <<"w","o","n","d","e","r","l","a","n","d">>,
    <<"w","a","k","a","n","d","a">>,
    <<"a","s","g","a","r","d">>,
    <<"p","a","n","d","o","r","a">>,
    <<"w","e","s","t","e","r","o","s">>,
    <<"k","i","n","g","'","s"," ","l","a","n","d","i","n","g">>,
    <<"d","r","a","g","o","n","s","t","o","n","e">>,
    <<"w","i","n","t","e","r","f","e","l","l">>,
    <<"h","o","t","h">>,
    <<"t","a","t","o","o","i","n","e">>,
    <<"e","n","d","o","r">>,
    <<"n","a","b","o","o">>,
    <<"c","o","r","u","s","c","a","n","t">>,
    <<"k","a","m","i","n","o">>,
    <<"a","l","d","e","r","a","a","n">>,
    <<"v","u","l","c","a","n">>,
    <<"b","a","j","o","r">>,
    <<"G","o","t","h","a","m">>,
    <<"m","e","t","r","o","p","o","l","i","s">>,
    <<"g","o","t","h","a","m"," ","c","i","t","y">>,
    <<"s","o","u","t","h"," ","p","a","r","k">>,
    <<"s","p","r","i","n","g","f","i","e","l","d">>,
    <<"s","o","m","e","w","h","e","r","e">>,
    <<"a","n","y","w","h","e","r","e">>,
    <<"e","v","e","r","y","w","h","e","r","e">>,
    <<"n","o","w","h","e","r","e">>,
    <<"p","a","r","a","d","i","s","e">>,
    <<"a"," ","b","e","a","c","h">>,
    <<"t","h","e"," ","b","e","a","c","h">>,
    <<"s","o","m","e","w","h","e","r","e"," ","w","a","r","m">>,
    <<"s","o","m","e","w","h","e","r","e"," ","c","o","l","d">>,
    <<"a"," ","c","o","u","n","t","r","y">>,
    <<"a"," ","c","i","t","y">>,
    <<"a"," ","p","l","a","c","e">>,
    <<"a","b","r","o","a","d">>,
    <<"o","v","e","r","s","e","a","s">>
  }

space_words ==
  {
    <<"m","o","o","n">>,
    <<"t","h","e"," ","m","o","o","n">>,
    <<"m","a","r","s">>,
    <<"j","u","p","i","t","e","r">>,
    <<"s","a","t","u","r","n">>,
    <<"v","e","n","u","s">>,
    <<"m","e","r","c","u","r","y">>,
    <<"n","e","p","t","u","n","e">>,
    <<"u","r","a","n","u","s">>,
    <<"p","l","u","t","o">>,
    <<"s","p","a","c","e">>,
    <<"o","u","t","e","r"," ","s","p","a","c","e">>,
    <<"t","h","e"," ","s","u","n">>,
    <<"i","s","s">>,
    <<"i","n","t","e","r","n","a","t","i","o","n","a","l"," ","s","p","a","c","e"," ","s","t","a","t","i","o","n">>
  }

fictional_words ==
  {
    <<"h","o","g","w","a","r","t","s">>,
    <<"n","a","r","n","i","a">>,
    <<"m","i","d","d","l","e"," ","e","a","r","t","h">>,
    <<"w","a","k","a","n","d","a">>,
    <<"a","s","g","a","r","d">>,
    <<"p","a","n","d","o","r","a">>,
    <<"w","e","s","t","e","r","o","s">>,
    <<"n","e","v","e","r","l","a","n","d">>,
    <<"o","z">>,
    <<"w","o","n","d","e","r","l","a","n","d">>,
    <<"t","a","t","o","o","i","n","e">>,
    <<"g","o","t","h","a","m">>,
    <<"m","e","t","r","o","p","o","l","i","s">>
  }

MAX_BUDGET_USD == 500000

MAX_DURATION_DAYS == 365

\* ------------------------------------------------------------------------
\* datetime
\* ------------------------------------------------------------------------

IsLeap(y) == (y % 4 = 0 /\ y % 100 # 0) \/ y % 400 = 0

DaysInMonth(y, m) ==
  IF m = 2 THEN (IF IsLeap(y) THEN 29 ELSE 28)
  ELSE IF m \in {4, 6, 9, 11} THEN 30 ELSE 31

ValidYMD(y, m, d) ==
  /\ y \in 1..9999
  /\ m \in 1..12
  /\ d \in 1..DaysInMonth(y, m)

RECURSIVE DaysBeforeMonth(_, _)
DaysBeforeMonth(y, m) ==
  IF m <= 1 THEN 0 ELSE DaysBeforeMonth(y, m - 1) + DaysInMonth(y, m - 1)

\* date.toordinal()
Ordinal(y, m, d) ==
  LET p == y - 1
  IN  p * 365 + (p \div 4) - (p \div 100) + (p \div 400)
      + DaysBeforeMonth(y, m) + d

\* hours since the start of year 1 of a naive datetime
Hours(dt) == Ordinal(dt.y, dt.m, dt.d) * 24 + dt.h

\* (a - b).days
DaysBetween(a, b) == (Hours(a) - Hours(b)) \div 24

\* str.replace("Z", "+00:00") on a date string
replace_Z(s) == IF s.kind = "isoZ" THEN [s EXCEPT !.kind = "isoOffset"] ELSE s

\* date_str[:10]
first10(s) ==
  IF s.kind \in {"isoT", "isoZ", "isoOffset"}
  THEN [s EXCEPT !.kind = "iso", !.h = 0]
  ELSE s

\* datetime.fromisoformat(s).replace(tzinfo=None); None stands for ValueError
fromisoformat(s) ==
  IF s.kind \in {"iso", "isoT", "isoOffset"} /\ ValidYMD(s.y, s.m, s.d)
  THEN Some([y |-> s.y, m |-> s.m, d |-> s.d, h |-> s.h])
  ELSE None

\* datetime.strptime(s, "%Y-%m-%d"); None stands for ValueError
strptime_ymd(s) ==
  IF s.kind \in {"iso", "nopad"} /\ ValidYMD(s.y, s.m, s.d)
  THEN Some([y |-> s.y, m |-> s.m, d |-> s.d, h |-> 0])
  ELSE None

\* truth value of an Optional[str] date: None and "" are falsy
TruthyDate(x) == x # None /\ x[1].kind # "empty"

\* datetime.utcnow() at the given clock reading (months after the start),
\* taken on the 15th of the month
utcnow(c) ==
  LET n == 2026 * 12 + (11 - 1) + c
  IN  [y |-> n \div 12, m |-> (n % 12) + 1, d |-> 15]

\* ------------------------------------------------------------------------
\* _validate_trip_input
\* ------------------------------------------------------------------------

\* the error dict; message names the message template that is returned
ValidationError(message) ==
  Some([status |-> "validation_error", message |-> message])

\* the deny-list test of the destination
in_deny_list(dest_clean) == lower(dest_clean) \in INVALID_DESTINATIONS

\* validate_budget with the upper bound itself rejected
validate_budget_rejects_maximum(budget) ==
  IF budget # None
  THEN IF budget[1] < 0 THEN ValidationError("budget_negative")
       ELSE IF budget[1] = 0 THEN ValidationError("budget_zero")
       ELSE IF budget[1] >= MAX_BUDGET_USD * 100
            THEN ValidationError("budget_too_high")
       ELSE None
  ELSE None

\* the budget block: None when the budget passes
validate_budget(budget) ==
  IF budget # None
  THEN IF budget[1] < 0 THEN ValidationError("budget_negative")
       ELSE IF budget[1] = 0 THEN ValidationError("budget_zero")
       ELSE IF budget[1] > MAX_BUDGET_USD * 100
            THEN ValidationError("budget_too_high")
       ELSE None
  ELSE None

\* validate_dates comparing whole dates: a start day before today is
\* rejected even in the current month
validate_dates_rejects_earlier_day(start_date, end_date, today) ==
  IF TruthyDate(start_date)
  THEN LET ps == fromisoformat(replace_Z(start_date[1]))
       IN  IF ps = None THEN None
           ELSE LET parsed_start == ps[1]
                IN  IF Ordinal(parsed_start.y, parsed_start.m, parsed_start.d)
                       < Ordinal(today.y, today.m, today.d)
                    THEN ValidationError("already_passed")
                    ELSE IF TruthyDate(end_date)
                    THEN LET pe == fromisoformat(replace_Z(end_date[1]))
                         IN  IF pe = None THEN None
                             ELSE IF Hours(pe[1]) <= Hours(parsed_start)
                                  THEN ValidationError("end_not_after_start")
                             ELSE IF DaysBetween(pe[1], parsed_start)
                                       > MAX_DURATION_DAYS
                                  THEN ValidationError("span_too_long")
                             ELSE None
                    ELSE None
  ELSE None

\* validate_dates failing closed: a date that cannot be parsed is an error
validate_dates_fails_closed(start_date, end_date, today) ==
  IF TruthyDate(start_date)
  THEN LET ps == fromisoformat(replace_Z(start_date[1]))
       IN  IF ps = None THEN ValidationError("invalid_date")
           ELSE LET parsed_start == ps[1]
                IN  IF parsed_start.y < today.y
                       \/ (parsed_start.y = today.y /\ parsed_start.m < today.m)
                    THEN ValidationError("already_passed")
                    ELSE IF TruthyDate(end_date)
                    THEN LET pe == fromisoformat(replace_Z(end_date[1]))
                         IN  IF pe = None
                             THEN ValidationError("invalid_date")
                             ELSE IF Hours(pe[1]) <= Hours(parsed_start)
                                  THEN ValidationError("end_not_after_start")
                             ELSE IF DaysBetween(pe[1], parsed_start)
                                       > MAX_DURATION_DAYS
                                  THEN ValidationError("span_too_long")
                             ELSE None
                    ELSE None
  ELSE None

\* the date block: None when the dates pass or cannot be parsed
validate_dates(start_date, end_date, today) ==
  IF TruthyDate(start_date)
  THEN LET ps == fromisoformat(replace_Z(start_date[1]))
       IN  IF ps = None THEN None
           ELSE LET parsed_start == ps[1]
                IN  IF parsed_start.y < today.y
                       \/ (parsed_start.y = today.y /\ parsed_start.m < today.m)
                    THEN ValidationError("already_passed")
                    ELSE IF TruthyDate(end_date)
                    THEN LET pe == fromisoformat(replace_Z(end_date[1]))
                         IN  IF pe = None THEN None
                             ELSE IF Hours(pe[1]) <= Hours(parsed_start)
                                  THEN ValidationError("end_not_after_start")
                             ELSE IF DaysBetween(pe[1], parsed_start)
                                       > MAX_DURATION_DAYS
                                  THEN ValidationError("span_too_long")
                             ELSE None
                    ELSE None
  ELSE None

\* the duration block
validate_duration(duration_days) ==
  IF duration_days # None
  THEN IF duration_days[1] <= 0 THEN ValidationError("duration_too_short")
       ELSE IF duration_days[1] > MAX_DURATION_DAYS
            THEN ValidationError("duration_too_long")
       ELSE None
  ELSE None

\* returns None when every input is valid, the error dict otherwise
_validate_trip_input(destination, start_date, end_date, duration_days, budget, today) ==
  LET dest_clean == strip(destination)
  IN  IF destination = <<>> \/ dest_clean = <<>>
      THEN ValidationError("need_destination")
      ELSE IF Len(dest_clean) <= 1
      THEN ValidationError("not_a_destination_name")
      ELSE IF isdigit(remove_spaces(dest_clean))
      THEN ValidationError("not_a_destination_where")
      ELSE IF in_deny_list(dest_clean)
      THEN IF lower(dest_clean) \in space_words
           THEN ValidationError("out_of_range")
           ELSE IF lower(dest_clean) \in fictional_words
           THEN ValidationError("only_in_fiction")
           ELSE ValidationError("not_able_to_plan")
      ELSE LET budget_error == validate_budget(budget)
               date_error == validate_dates(start_date, end_date, today)
           IN  IF budget_error # None THEN budget_error
               ELSE IF date_error # None THEN date_error
               ELSE validate_duration(duration_days)

\* ------------------------------------------------------------------------
\* _extract_month_year
\* ------------------------------------------------------------------------

\* (year, month) of a date string, None when absent or unparseable
_extract_month_year(date_str) ==
  IF ~TruthyDate(date_str) THEN None
  ELSE LET dt == strptime_ymd(first10(date_str[1]))
       IN  IF dt = None THEN None ELSE Some(<<dt[1].y, dt[1].m>>)

\* ------------------------------------------------------------------------
\* Bounds of the model
\* ------------------------------------------------------------------------

\* rows the trips table may hold
MaxTrips == 3

\* months the clock may advance
MaxClock == 1

\* ------------------------------------------------------------------------
\* The trips table (models.Trip) and its JSON trip_metadata column
\* ------------------------------------------------------------------------

\* dict.get(key) with the default None
md_get(md, key) == IF key \in DOMAIN md THEN md[key] ELSE None

\* md[key] = value on a copy of the dict
md_put(md, key, value) ==
  [k \in DOMAIN md \cup {key} |-> IF k = key THEN value ELSE md[k]]

\* truth value of an Optional[str] / Optional[list]
Truthy(x, empty) == x # None /\ x[1] # empty

\* Trip(...) as constructed by plan_and_save_trip
NewTrip(user_id, destination, start_date, end_date, duration_days, budget, travelers_count, preferences, country_code) ==
  [ user_id         |-> user_id,
    destination     |-> destination,
    start_date      |-> start_date,
    end_date        |-> end_date,
    duration_days   |-> duration_days,
    budget          |-> budget,
    travelers_count |-> travelers_count,
    trip_metadata   |->
      [ preferences  |-> IF Truthy(preferences, <<>>)
                         THEN preferences[1] ELSE <<>>,
        source       |-> "user_input",
        country_code |-> country_code ],
    status          |-> "planning" ]

\* merge_metadata that stores every country_code it is given
merge_metadata_overwrites_country_code(md, preferences, country_code) ==
  LET md1 == IF Truthy(preferences, <<>>)
             THEN md_put(md, "preferences", preferences[1]) ELSE md
  IN  IF Truthy(country_code, "")
      THEN md_put(md1, "country_code", country_code)
      ELSE md1

\* the metadata merge of an update: preferences replaced when given,
\* country_code set only when the trip has none
merge_metadata(md, preferences, country_code) ==
  LET md1 == IF Truthy(preferences, <<>>)
             THEN md_put(md, "preferences", preferences[1]) ELSE md
  IN  IF Truthy(country_code, "") /\ ~Truthy(md_get(md1, "country_code"), "")
      THEN md_put(md1, "country_code", country_code)
      ELSE md1

\* update_existing that assigns the budget without the None test
update_existing_assigns_null_budget(t, start_date, end_date, duration_days, budget, travelers_count, preferences, country_code) ==
  [ t EXCEPT
      !.start_date      = IF start_date # None THEN start_date ELSE @,
      !.end_date        = IF end_date # None THEN end_date ELSE @,
      !.duration_days   = IF duration_days # None THEN duration_days ELSE @,
      !.budget          = budget,
      !.travelers_count = IF travelers_count # 1 THEN travelers_count ELSE @,
      !.trip_metadata   = merge_metadata(@, preferences, country_code) ]

\* Case 5: the existing trip has no month/year, the request has one
update_existing(t, start_date, end_date, duration_days, budget, travelers_count, preferences, country_code) ==
  [ t EXCEPT
      !.start_date      = IF start_date # None THEN start_date ELSE @,
      !.end_date        = IF end_date # None THEN end_date ELSE @,
      !.duration_days   = IF duration_days # None THEN duration_days ELSE @,
      !.budget          = IF budget # None THEN budget ELSE @,
      !.travelers_count = IF travelers_count # 1 THEN travelers_count ELSE @,
      !.trip_metadata   = merge_metadata(@, preferences, country_code) ]

\* Case 3: same month/year, upsert of the existing trip
upsert_existing(t, start_date, end_date, duration_days, budget, travelers_count, preferences, country_code) ==
  [ t EXCEPT
      !.start_date      = IF start_date # None THEN start_date ELSE @,
      !.end_date        = IF end_date # None THEN end_date ELSE @,
      !.duration_days   = IF duration_days # None THEN duration_days ELSE @,
      !.budget          = IF budget # None THEN budget ELSE @,
      !.travelers_count = IF travelers_count # 1 THEN travelers_count ELSE @,
      !.trip_metadata   = merge_metadata(@, preferences, country_code) ]

\* destination.strip().lower()
normalise(destination) == lower(strip(destination))

\* matching_trips without the status filter: trips of any status match
matching_trips_of_any_status(user_id, destination) ==
  LET destination_normalised == normalise(destination)
  IN  { id \in DOMAIN trips :
          /\ trips[id].user_id = user_id
          /\ normalise(trips[id].destination) = destination_normalised }

\* the user's planning trips to the same destination (trimmed, lower-cased)
matching_trips(user_id, destination) ==
  LET destination_normalised == normalise(destination)
  IN  { id \in DOMAIN trips :
          /\ trips[id].user_id = user_id
          /\ trips[id].status = "planning"
          /\ normalise(trips[id].destination) = destination_normalised }

\* db.add(new_trip); db.commit(): the row gets the next id of the sequence
Insert(t) ==
  /\ Cardinality(DOMAIN trips) < MaxTrips
  /\ trips' = [id \in DOMAIN trips \cup {next_id} |->
                 IF id = next_id THEN t ELSE trips[id]]
  /\ next_id' = next_id + 1

\* the record of a call: its arguments, the dict it returned, the row bound
\* to the local variable existing (None when there is none) and the branch
\* of the function that returned
Call(op, args, result, existing, branch) ==
  [ op |-> op, args |-> args, result |-> result,
    existing |-> existing, branch |-> branch ]

\* ------------------------------------------------------------------------
\* plan_and_save_trip
\* ------------------------------------------------------------------------

\* dedup_case without the both-undated test of Case 4
dedup_case_without_case4(existing_month_year, new_month_year) ==
  IF existing_month_year = None /\ new_month_year # None
  THEN "case5_update"
  ELSE IF existing_month_year # new_month_year
  THEN "case2_insert"
  ELSE "case3_upsert"

\* dedup_case without the update of an undated trip of Case 5
dedup_case_without_case5(existing_month_year, new_month_year) ==
  IF new_month_year = None /\ existing_month_year = None
  THEN "case4_needs_clarification"
  ELSE IF existing_month_year # new_month_year
  THEN "case2_insert"
  ELSE "case3_upsert"

\* dedup_case without the different-month insert of Case 2
dedup_case_without_case2(existing_month_year, new_month_year) ==
  IF new_month_year = None /\ existing_month_year = None
  THEN "case4_needs_clarification"
  ELSE IF existing_month_year = None /\ new_month_year # None
  THEN "case5_update"
  ELSE "case3_upsert"

\* dedup_case that inserts whenever both sides are dated
dedup_case_never_upsert(existing_month_year, new_month_year) ==
  IF new_month_year = None /\ existing_month_year = None
  THEN "case4_needs_clarification"
  ELSE IF existing_month_year = None /\ new_month_year # None
  THEN "case5_update"
  ELSE "case2_insert"

\* dedup_case asking for clarification whenever the request is undated
dedup_case_undated_request_clarifies(existing_month_year, new_month_year) ==
  IF new_month_year = None
  THEN "case4_needs_clarification"
  ELSE IF existing_month_year = None /\ new_month_year # None
  THEN "case5_update"
  ELSE IF existing_month_year # new_month_year
  THEN "case2_insert"
  ELSE "case3_upsert"

\* the chain of date comparisons once an existing trip is found
dedup_case(existing_month_year, new_month_year) ==
  IF new_month_year = None /\ existing_month_year = None
  THEN "case4_needs_clarification"
  ELSE IF existing_month_year = None /\ new_month_year # None
  THEN "case5_update"
  ELSE IF existing_month_year # new_month_year
  THEN "case2_insert"
  ELSE "case3_upsert"

plan_and_save_trip(destination, user_id, start_date, end_date, duration_days, budget, travelers_count, preferences, country_code) ==
  LET args == [ destination |-> destination, user_id |-> user_id,
                start_date |-> start_date, end_date |-> end_date,
                duration_days |-> duration_days, budget |-> budget,
                travelers_count |-> travelers_count,
                preferences |-> preferences, country_code |-> country_code ]
      validation_error ==
        _validate_trip_input(destination, start_date, end_date,
                             duration_days, budget, utcnow(clock))
      new_trip == NewTrip(user_id, destination, start_date, end_date,
                          duration_days, budget, travelers_count,
                          preferences, country_code)
      new_month_year == _extract_month_year(start_date)
      candidates == matching_trips(user_id, destination)
      created == [ trip_id |-> next_id, destination |-> destination,
                   duration_days |-> duration_days, budget |-> budget,
                   status |-> "created" ]
      updated(id, t) == [ trip_id |-> id, destination |-> t.destination,
                          duration_days |-> t.duration_days,
                          budget |-> t.budget, status |-> "updated" ]
  IN
  IF validation_error # None
  THEN /\ last' = Call("plan_and_save_trip", args, validation_error[1],
                       None, "validation_error")
       /\ UNCHANGED <<trips, next_id, clock, inflight>>
  ELSE IF candidates = {}
  THEN \* Case 1: no conflict
       /\ Insert(new_trip)
       /\ last' = Call("plan_and_save_trip", args, created, None,
                       "case1_insert")
       /\ UNCHANGED <<clock, inflight>>
  ELSE \* the query has no ORDER BY: any matching row may come first
       \E id \in candidates :
         LET existing == trips[id]
             existing_month_year == _extract_month_year(existing.start_date)
             branch == dedup_case(existing_month_year, new_month_year)
         IN
         CASE branch = "case4_needs_clarification" ->
                /\ last' = Call("plan_and_save_trip", args,
                                [ trip_id |-> id,
                                  destination |-> existing.destination,
                                  status |-> "needs_clarification" ],
                                Some(id), branch)
                /\ UNCHANGED <<trips, next_id, clock, inflight>>
           [] branch = "case5_update" ->
                LET t == update_existing(existing, start_date, end_date,
                           duration_days, budget, travelers_count,
                           preferences, country_code)
                IN  /\ trips' = [trips EXCEPT ![id] = t]
                    /\ last' = Call("plan_and_save_trip", args,
                                    updated(id, t), Some(id), branch)
                    /\ UNCHANGED <<next_id, clock, inflight>>
           [] branch = "case2_insert" ->
                /\ Insert(new_trip)
                /\ last' = Call("plan_and_save_trip", args, created,
                                Some(id), branch)
                /\ UNCHANGED <<clock, inflight>>
           [] branch = "case3_upsert" ->
                LET t == upsert_existing(existing, start_date, end_date,
                           duration_days, budget, travelers_count,
                           preferences, country_code)
                IN  /\ trips' = [trips EXCEPT ![id] = t]
                    /\ last' = Call("plan_and_save_trip", args,
                                    updated(id, t), Some(id), branch)
                    /\ UNCHANGED <<next_id, clock, inflight>>

\* ------------------------------------------------------------------------
\* Inputs
\* ------------------------------------------------------------------------

Users == {1, 2}

DateStr(kind, y, m, d, h) ==
  Some([kind |-> kind, y |-> y, m |-> m, d |-> d, h |-> h])

\* "next spring"
FreeText == Some([kind |-> "text", y |-> 0, m |-> 0, d |-> 0, h |-> 0])

Tokyo == <<"T","o","k","y","o">>

TokyoPadded == <<" ","t","o","k","y","o"," ">>

Paris == <<"P","a","r","i","s">>

March1 == DateStr("iso", 2027, 3, 1, 0)

March20 == DateStr("nopad", 2027, 3, 20, 0)

November20 == DateStr("isoT", 2026, 11, 20, 9)

October5 == DateStr("iso", 2026, 10, 5, 0)

\* the requests of the deduplication runs: user 1 asks for Tokyo undated, in
\* March (two spellings of the date), in November and in a month that has
\* passed, and for " tokyo " undated and in March; user 2 asks for Tokyo
DedupRequests ==
  [ destination : {Tokyo}, user_id : {1},
    start_date : {None, March1, March20, November20, October5} ]
  \cup [ destination : {TokyoPadded}, user_id : {1},
         start_date : {None, March1} ]
  \cup [ destination : {Tokyo}, user_id : {2}, start_date : {March1} ]

\* ------------------------------------------------------------------------
\* Specification: plan_and_save_trip calls on an empty store
\* ------------------------------------------------------------------------

Init ==
  /\ trips = <<>>
  /\ next_id = 1
  /\ clock = 0
  /\ last = Call("init", <<>>, <<>>, None, "init")
  /\ inflight = {}

PlanTrip ==
  \E r \in DedupRequests :
    plan_and_save_trip(r.destination, r.user_id, r.start_date, None, None,
                       None, 1, None, None)

Next == PlanTrip

Spec == Init /\ [][Next]_vars

\* ------------------------------------------------------------------------
\* Vocabulary of the properties
\* ------------------------------------------------------------------------

IsPlanCall(c) == c.op = "plan_and_save_trip"

\* the date string has a parseable (year, month)
HasMonthYear(date) ==
  TruthyDate(date) /\ strptime_ymd(first10(date[1])) # None

MonthYearOf(date) == <<date[1].y, date[1].m>>

\* the request passes _validate_trip_input at the current clock reading
PassesValidation(a) ==
  _validate_trip_input(a.destination, a.start_date, a.end_date,
                       a.duration_days, a.budget, utcnow(clock)) = None

\* the rows of table tbl owned by the user whose destination, trimmed and
\* lower-cased, is the given one (whatever their status)
TripsTo(tbl, user_id, destination) ==
  { id \in DOMAIN tbl :
      /\ tbl[id].user_id = user_id
      /\ normalise(tbl[id].destination) = normalise(destination) }

SameUserAndDestination(a, b) ==
  /\ a.user_id = b.user_id
  /\ normalise(a.destination) = normalise(b.destination)

\* ------------------------------------------------------------------------
\* Properties of deduplication (specification Spec)
\* ------------------------------------------------------------------------

\* C2: no two planning trips of one user to the same destination (trimmed,
\* case-insensitive) have start dates with the same parseable (year, month).
C2_NoSameMonthDuplicates ==
  \A a, b \in DOMAIN trips :
    ( /\ a # b
      /\ trips[a].status = "planning"
      /\ trips[b].status = "planning"
      /\ trips[a].user_id = trips[b].user_id
      /\ normalise(trips[a].destination) = normalise(trips[b].destination)
      /\ HasMonthYear(trips[a].start_date)
      /\ HasMonthYear(trips[b].start_date) )
    => MonthYearOf(trips[a].start_date) # MonthYearOf(trips[b].start_date)

\* C3: a valid request without a parseable start month/year, made when the
\* user's one trip to that destination is a planning trip that has no
\* parseable start month/year either, writes nothing, returns
\* needs_clarification with that trip's id and destination, and leaves
\* exactly one trip for that user and destination.
C3_UndatedTwiceNeedsClarification ==
  [][ LET a == last'.args
          r == last'.result
      IN  \A id \in DOMAIN trips :
            ( /\ IsPlanCall(last')
              /\ PassesValidation(a)
              /\ ~HasMonthYear(a.start_date)
              /\ TripsTo(trips, a.user_id, a.destination) = {id}
              /\ trips[id].status = "planning"
              /\ ~HasMonthYear(trips[id].start_date) )
            => /\ trips' = trips
               /\ next_id' = next_id
               /\ r.status = "needs_clarification"
               /\ r.trip_id = id
               /\ r.destination = trips[id].destination
               /\ Cardinality(TripsTo(trips', a.user_id, a.destination)) = 1
    ]_vars

\* C3 witness: the call just returned needs_clarification and the user has
\* exactly one trip to the requested destination.
C3_Witness ==
  /\ IsPlanCall(last)
  /\ last.branch = "case4_needs_clarification"
  /\ last.result.status = "needs_clarification"
  /\ Cardinality(TripsTo(trips, last.args.user_id, last.args.destination)) = 1

\* C4: a valid undated request for a destination the user has no trip to is
\* created; a valid request with a parseable start date for the same user
\* and destination that comes right after it returns updated with the id of
\* that row, and the row stays the only one for that user and destination.
C4_UndatedThenDatedUpdates ==
  [][ LET a == last'.args
          r == last'.result
      IN  /\ ( /\ IsPlanCall(last')
               /\ PassesValidation(a)
               /\ ~HasMonthYear(a.start_date)
               /\ TripsTo(trips, a.user_id, a.destination) = {} )
             => /\ r.status = "created"
                /\ TripsTo(trips', a.user_id, a.destination) = {r.trip_id}
          /\ ( /\ IsPlanCall(last)
               /\ last.result.status = "created"
               /\ ~HasMonthYear(last.args.start_date)
               /\ TripsTo(trips, last.args.user_id, last.args.destination)
                    = {last.result.trip_id}
               /\ IsPlanCall(last')
               /\ SameUserAndDestination(a, last.args)
               /\ HasMonthYear(a.start_date)
               /\ PassesValidation(a) )
             => /\ r.status = "updated"
                /\ r.trip_id = last.result.trip_id
                /\ DOMAIN trips' = DOMAIN trips
                /\ TripsTo(trips', a.user_id, a.destination) = {r.trip_id}
                /\ trips'[r.trip_id].start_date = a.start_date
    ]_vars

\* C4 witness: the call just updated an undated trip with a dated request
\* and the trip is the user's only one to that destination.
C4_Witness ==
  /\ IsPlanCall(last)
  /\ last.branch = "case5_update"
  /\ last.result.status = "updated"
  /\ HasMonthYear(last.args.start_date)
  /\ TripsTo(trips, last.args.user_id, last.args.destination)
       = {last.result.trip_id}

\* C5: a valid dated request for a destination the user has no trip to is
\* created; a valid request for the same user and destination that comes
\* right after it with a start date of another (year, month) is created
\* too, with a different id, and both rows are in the store.
C5_DifferentMonthsCreateTwoTrips ==
  [][ LET a == last'.args
          r == last'.result
      IN  /\ ( /\ IsPlanCall(last')
               /\ PassesValidation(a)
               /\ HasMonthYear(a.start_date)
               /\ TripsTo(trips, a.user_id, a.destination) = {} )
             => /\ r.status = "created"
                /\ r.trip_id \notin DOMAIN trips
                /\ r.trip_id \in DOMAIN trips'
          /\ ( /\ IsPlanCall(last)
               /\ last.result.status = "created"
               /\ HasMonthYear(last.args.start_date)
               /\ TripsTo(trips, last.args.user_id, last.args.destination)
                    = {last.result.trip_id}
               /\ IsPlanCall(last')
               /\ SameUserAndDestination(a, last.args)
               /\ HasMonthYear(a.start_date)
               /\ MonthYearOf(a.start_date)
                    # MonthYearOf(last.args.start_date)
               /\ PassesValidation(a) )
             => /\ r.status = "created"
                /\ r.trip_id # last.result.trip_id
                /\ {r.trip_id, last.result.trip_id} \subseteq DOMAIN trips'
                /\ trips'[last.result.trip_id] = trips[last.result.trip_id]
                /\ trips'[r.trip_id].start_date = a.start_date
    ]_vars

\* C5 witness: the call just created a second trip to a destination the
\* user already had a trip to in another month.
C5_Witness ==
  /\ IsPlanCall(last)
  /\ last.branch = "case2_insert"
  /\ last.result.status = "created"
  /\ HasMonthYear(last.args.start_date)
  /\ \E id \in TripsTo(trips, last.args.user_id, last.args.destination) :
       /\ id # last.result.trip_id
       /\ HasMonthYear(trips[id].start_date)
       /\ MonthYearOf(trips[id].start_date)
            # MonthYearOf(last.args.start_date)

\* C6: when the matched planning trip and the request both have a parseable
\* start month/year and these are equal, the call updates that trip, returns
\* updated with its id, and the set of rows does not change.
C6_SameMonthUpdates ==
  [][ LET a == last'.args
          r == last'.result
      IN  ( /\ IsPlanCall(last')
            /\ last'.existing # None
            /\ HasMonthYear(trips[last'.existing[1]].start_date)
            /\ HasMonthYear(a.start_date)
            /\ MonthYearOf(trips[last'.existing[1]].start_date)
                 = MonthYearOf(a.start_date) )
          => /\ r.status = "updated"
             /\ r.trip_id = last'.existing[1]
             /\ DOMAIN trips' = DOMAIN trips
             /\ trips'[r.trip_id].start_date = a.start_date
             /\ \A id \in DOMAIN trips \ {r.trip_id} : trips'[id] = trips[id]
    ]_vars

\* C6 witness: the call just merged a dated request into a trip of the same
\* month, and the trip now carries the request's start date.
C6_Witness ==
  /\ IsPlanCall(last)
  /\ last.branch = "case3_upsert"
  /\ last.result.status = "updated"
  /\ trips[last.result.trip_id].start_date = last.args.start_date
  /\ HasMonthYear(last.args.start_date)

\* ------------------------------------------------------------------------
\* Specification SpecDeny: plan_and_save_trip with every entry of the
\* deny-list as destination, as written, lower-cased, upper-cased and
\* surrounded by spaces, and with one destination that is not on the list
\* ------------------------------------------------------------------------

Mars == <<"m","a","r","s">>

Gotham == <<"G","o","t","h","a","m">>

DenyListSpellings ==
  UNION { { e, lower(e), upper(e), <<" ">> \o e \o <<" ", " ">> } :
          e \in INVALID_DESTINATIONS }

PlanDenied ==
  \E destination \in DenyListSpellings \cup {Paris} :
    plan_and_save_trip(destination, 1, None, None, None, None, 1, None, None)

NextDeny == PlanDenied

SpecDeny == Init /\ [][NextDeny]_vars

\* the deny-list with every entry lower-cased
LowerDenyList == { lower(e) : e \in INVALID_DESTINATIONS }

\* the destination, trimmed and ignoring case, is an entry of the deny-list
OnDenyList(destination) == lower(strip(destination)) \in LowerDenyList

\* C1: a call whose destination equals an entry of the deny-list after
\* trimming and ignoring case returns validation_error and writes no row.
C1_DenyListRejectedWithoutWrite ==
  [][ ( IsPlanCall(last') /\ OnDenyList(last'.args.destination) )
      => /\ last'.result.status = "validation_error"
         /\ trips' = trips
         /\ next_id' = next_id
    ]_vars

\* ------------------------------------------------------------------------
\* Specification SpecValidate: _validate_trip_input applied to inputs drawn
\* at the start
\* ------------------------------------------------------------------------

Empty == Some([kind |-> "empty", y |-> 0, m |-> 0, d |-> 0, h |-> 0])

ValidateDestinations ==
  { Paris, <<>>, <<" ", " ">>, <<"x">>, <<"1", "2", " ", "3">>,
    <<" ", "M", "A", "R", "S">>, <<"n","a","r","n","i","a">>,
    <<"A"," ","b","e","a","c","h">>, Gotham }

ValidateStartDates ==
  { None, Empty, FreeText, October5, November20, March1, March20,
    DateStr("isoZ", 2027, 3, 1, 12), DateStr("iso", 2026, 11, 1, 0) }

ValidateEndDates ==
  { None, FreeText,
    DateStr("iso", 2027, 2, 27, 0),
    DateStr("iso", 2027, 3, 1, 0),
    DateStr("isoT", 2027, 3, 1, 18),
    DateStr("iso", 2028, 2, 29, 0),
    DateStr("iso", 2028, 3, 1, 0) }

ValidateDurations == { None, Some(-1), Some(0), Some(1), Some(365), Some(366) }

\* budgets in cents: -0.01, 0, 0.01, 500000.00, 500000.01
ValidateBudgets ==
  { None, Some(-1), Some(0), Some(1), Some(MAX_BUDGET_USD * 100),
    Some(MAX_BUDGET_USD * 100 + 1) }

ValidateInputs ==
  [ destination : ValidateDestinations, start_date : ValidateStartDates,
    end_date : ValidateEndDates, duration_days : ValidateDurations,
    budget : ValidateBudgets ]

InitValidate ==
  /\ trips = <<>>
  /\ next_id = 1
  /\ clock \in 0..MaxClock
  /\ \E a \in ValidateInputs : last = Call("input", a, None, None, "input")
  /\ inflight = {}

Validate ==
  /\ last.op = "input"
  /\ last' = Call("_validate_trip_input", last.args,
                  _validate_trip_input(last.args.destination,
                                       last.args.start_date,
                                       last.args.end_date,
                                       last.args.duration_days,
                                       last.args.budget, utcnow(clock)),
                  None, "returned")
  /\ UNCHANGED <<trips, next_id, clock, inflight>>

NextValidate == Validate

SpecValidate == InitValidate /\ [][NextValidate]_vars

Validated == last.op = "_validate_trip_input"

\* the destination passes the three destination rules
ValidDestination(destination) ==
  /\ strip(destination) # <<>>
  /\ Len(strip(destination)) > 1
  /\ ~isdigit(remove_spaces(strip(destination)))
  /\ ~OnDenyList(destination)

\* C9: with a valid destination and no dates or duration, validation fails
\* for every budget b <= 0 or b > 500000 and returns no error for every
\* budget with 0 < b <= 500000 and for an absent budget.
C9_BudgetRange ==
  ( /\ Validated
    /\ ValidDestination(last.args.destination)
    /\ last.args.start_date = None
    /\ last.args.end_date = None
    /\ last.args.duration_days = None )
  => IF last.args.budget = None
     THEN last.result = None
     ELSE LET b == last.args.budget[1]
          IN  /\ (b <= 0 \/ b > 500000 * 100)
                   => /\ last.result # None
                      /\ last.result[1].status = "validation_error"
              /\ (0 < b /\ b <= 500000 * 100) => last.result = None

\* C9 witness: a budget of exactly 500000 was validated and accepted.
C9_Witness ==
  /\ Validated
  /\ ValidDestination(last.args.destination)
  /\ last.args.start_date = None
  /\ last.args.end_date = None
  /\ last.args.duration_days = None
  /\ last.args.budget = Some(500000 * 100)
  /\ last.result = None

\* the rule, in the documented order, that the input violates first;
\* 0 when it violates none
ParsedDate(date) ==
  IF TruthyDate(date) THEN fromisoformat(replace_Z(date[1])) ELSE None

FirstViolatedRule(a, today) ==
  LET d == strip(a.destination)
      ps == ParsedDate(a.start_date)
      pe == ParsedDate(a.end_date)
  IN  IF d = <<>> THEN 1
      ELSE IF Len(d) <= 1 \/ isdigit(remove_spaces(d)) THEN 2
      ELSE IF OnDenyList(a.destination) THEN 3
      ELSE IF a.budget # None /\ a.budget[1] < 0 THEN 4
      ELSE IF a.budget # None /\ a.budget[1] = 0 THEN 5
      ELSE IF a.budget # None /\ a.budget[1] > 500000 * 100 THEN 6
      ELSE IF ps # None /\ (ps[1].y < today.y
                            \/ (ps[1].y = today.y /\ ps[1].m < today.m))
      THEN 7
      ELSE IF ps # None /\ pe # None /\ Hours(pe[1]) <= Hours(ps[1]) THEN 8
      ELSE IF ps # None /\ pe # None
              /\ Ordinal(pe[1].y, pe[1].m, pe[1].d) * 24 + pe[1].h
                 - (Ordinal(ps[1].y, ps[1].m, ps[1].d) * 24 + ps[1].h)
                 >= 366 * 24
      THEN 9
      ELSE IF a.duration_days # None /\ a.duration_days[1] <= 0 THEN 10
      ELSE IF a.duration_days # None /\ a.duration_days[1] > 365 THEN 11
      ELSE 0

\* the rule a returned error reports; 0 for no error
ReportedRule(result) ==
  IF result = None THEN 0
  ELSE CASE result[1].message = "need_destination" -> 1
         [] result[1].message \in {"not_a_destination_name",
                                   "not_a_destination_where"} -> 2
         [] result[1].message \in {"out_of_range", "only_in_fiction",
                                   "not_able_to_plan"} -> 3
         [] result[1].message = "budget_negative" -> 4
         [] result[1].message = "budget_zero" -> 5
         [] result[1].message = "budget_too_high" -> 6
         [] result[1].message = "already_passed" -> 7
         [] result[1].message = "end_not_after_start" -> 8
         [] result[1].message = "span_too_long" -> 9
         [] result[1].message = "duration_too_short" -> 10
         [] result[1].message = "duration_too_long" -> 11

\* C10: the validator returns the failure of the earliest violated rule of
\* the documented order, and no error exactly when no rule is violated.
C10_FirstViolatedRuleWins ==
  Validated
  => ReportedRule(last.result) = FirstViolatedRule(last.args, utcnow(clock))

\* ------------------------------------------------------------------------
\* Specification SpecMerge: one user plans Tokyo again and again with
\* different dates, durations, budgets, traveller counts and preferences
\* ------------------------------------------------------------------------

\* rows of the merge runs
MaxMergeTrips == 1

March25 == DateStr("iso", 2027, 3, 25, 0)

March28 == DateStr("isoT", 2027, 3, 28, 10)

\* end_date, duration_days, budget (cents), travelers_count of a request
MergeDetails ==
  { [ end_date |-> None, duration_days |-> None, budget |-> None,
      travelers_count |-> 1 ],
    [ end_date |-> March25, duration_days |-> Some(3),
      budget |-> Some(100000), travelers_count |-> 2 ],
    [ end_date |-> March28, duration_days |-> None,
      budget |-> Some(250050), travelers_count |-> 1 ],
    [ end_date |-> Empty, duration_days |-> Some(7),
      budget |-> None, travelers_count |-> 2 ] }

MergeStartDates == { None, March1, March20 }

MergePreferences == { None, Some(<<"food", "culture">>) }

PlanMerge ==
  \E start_date \in MergeStartDates, x \in MergeDetails,
     preferences \in MergePreferences :
    /\ plan_and_save_trip(Tokyo, 1, start_date, x.end_date, x.duration_days,
                          x.budget, x.travelers_count, preferences, None)
    /\ Cardinality(DOMAIN trips') <= MaxMergeTrips

NextMerge == PlanMerge

SpecMerge == Init /\ [][NextMerge]_vars

\* the value a column takes on an update: the request's when it is not null
Merged(requested, stored) == IF requested # None THEN requested ELSE stored

\* C7: on every updated outcome start_date, end_date, duration_days and
\* budget take the request's value when it is not null and keep theirs when
\* it is null; travelers_count changes only when the request's value is not
\* the default 1; destination, status, owner and every metadata key other
\* than preferences and country_code keep their values.
C7_UpdateMergesNonNullFields ==
  [][ ( IsPlanCall(last') /\ last'.result.status = "updated" )
      => LET a == last'.args
             id == last'.result.trip_id
             old == trips[id]
             new == trips'[id]
             other == DOMAIN old.trip_metadata
                        \ {"preferences", "country_code"}
         IN  /\ new.start_date = Merged(a.start_date, old.start_date)
             /\ new.end_date = Merged(a.end_date, old.end_date)
             /\ new.duration_days
                  = Merged(a.duration_days, old.duration_days)
             /\ new.budget = Merged(a.budget, old.budget)
             /\ new.travelers_count
                  = IF a.travelers_count # 1 THEN a.travelers_count
                    ELSE old.travelers_count
             /\ new.destination = old.destination
             /\ new.status = old.status
             /\ new.user_id = old.user_id
             /\ DOMAIN new.trip_metadata \ {"preferences", "country_code"}
                  = other
             /\ \A k \in other : new.trip_metadata[k] = old.trip_metadata[k]
    ]_vars

\* C7 witness: an update whose request had no budget and no duration has
\* just left the stored budget in place while the end date was replaced.
C7_Witness ==
  /\ IsPlanCall(last)
  /\ last.result.status = "updated"
  /\ last.args.budget = None
  /\ last.args.end_date # None
  /\ trips[last.result.trip_id].budget # None
  /\ trips[last.result.trip_id].end_date = last.args.end_date
  /\ trips[last.result.trip_id].trip_metadata["source"] = "user_input"

\* ------------------------------------------------------------------------
\* Specification SpecCountry: one user plans Tokyo again and again with
\* different country codes
\* ------------------------------------------------------------------------

CountryCodes == { None, Some(""), Some("JPN"), Some("FRA") }

CountryStartDates == { None, March1, March20, November20 }

PlanCountry ==
  \E start_date \in CountryStartDates, country_code \in CountryCodes,
     preferences \in {None, Some(<<"food">>)} :
    /\ plan_and_save_trip(Tokyo, 1, start_date, None, None, None, 1,
                          preferences, country_code)
    /\ Cardinality(DOMAIN trips') <= MaxMergeTrips

NextCountry == PlanCountry

SpecCountry == Init /\ [][NextCountry]_vars

\* the country_code of a stored trip, None when the key is missing
CountryCodeOf(t) == md_get(t.trip_metadata, "country_code")

\* C8: a plan_and_save_trip call never changes a non-empty country_code of
\* a stored trip; when a call changes the country_code of a trip, the trip
\* had none and the call is an update of that trip with that country_code.
C8_CountryCodeNeverOverwritten ==
  [][ IsPlanCall(last')
      => \A id \in DOMAIN trips :
           /\ id \in DOMAIN trips'
           /\ Truthy(CountryCodeOf(trips[id]), "")
                => CountryCodeOf(trips'[id]) = CountryCodeOf(trips[id])
           /\ CountryCodeOf(trips'[id]) # CountryCodeOf(trips[id])
                => /\ ~Truthy(CountryCodeOf(trips[id]), "")
                   /\ last'.result.status = "updated"
                   /\ last'.result.trip_id = id
                   /\ CountryCodeOf(trips'[id]) = last'.args.country_code
    ]_vars

\* C8 witness: an update that passed another country code has just left
\* the stored, non-empty country code of the trip as it was.
C8_Witness ==
  /\ IsPlanCall(last)
  /\ last.result.status = "updated"
  /\ Truthy(last.args.country_code, "")
  /\ Truthy(CountryCodeOf(trips[last.result.trip_id]), "")
  /\ CountryCodeOf(trips[last.result.trip_id]) # last.args.country_code

\* ------------------------------------------------------------------------
\* Specification SpecDates: one user plans Tokyo again and again with
\* different start and end dates
\* ------------------------------------------------------------------------

March27 == DateStr("iso", 2027, 3, 27, 0)

June2028 == DateStr("iso", 2028, 6, 1, 0)

DatesStartDates == { None, March1, March20, March27 }

DatesEndDates == { None, March25, March28, June2028 }

PlanDates ==
  \E start_date \in DatesStartDates, end_date \in DatesEndDates :
    /\ plan_and_save_trip(Tokyo, 1, start_date, end_date, None, None, 1,
                          None, None)
    /\ Cardinality(DOMAIN trips') <= MaxMergeTrips

NextDates == PlanDates

SpecDates == Init /\ [][NextDates]_vars

\* C11: every stored trip whose start_date and end_date both parse as dates
\* has end_date strictly after start_date and a span of at most 365 days.
C11_StoredDatesOrdered ==
  \A id \in DOMAIN trips :
    LET t == trips[id]
    IN  ( ParsedDate(t.start_date) # None /\ ParsedDate(t.end_date) # None )
        => /\ Hours(ParsedDate(t.end_date)[1])
                > Hours(ParsedDate(t.start_date)[1])
           /\ DaysBetween(ParsedDate(t.end_date)[1],
                          ParsedDate(t.start_date)[1]) <= MAX_DURATION_DAYS

\* ------------------------------------------------------------------------
\* update_trip (the agent tool) and PUT /api/trips/{trip_id}
\* ------------------------------------------------------------------------

\* a lookup without the id filter: the first row of the table
find_trip_without_filter(trip_id) ==
  IF DOMAIN trips = {} THEN None
  ELSE Some(CHOOSE id \in DOMAIN trips : \A other \in DOMAIN trips : id <= other)

\* db.query(Trip).filter(Trip.id == trip_id).first(): the id of the row, or
\* None
find_trip(trip_id) ==
  IF trip_id \in DOMAIN trips THEN Some(trip_id) ELSE None

\* {"error": f"Trip with ID {trip_id} not found"}
NotFound(trip_id) == [ error |-> "not_found", trip_id |-> trip_id ]

\* HTTPException(status_code=404, detail="Trip not found")
HTTP404(trip_id) == [ status_code |-> 404, trip_id |-> trip_id ]

\* the assignments of tools.update_trip: every argument that is not None
\* is stored as it is
assign_fields(t, destination, start_date, end_date, duration_days, budget, travelers_count, status) ==
  [ t EXCEPT
      !.destination     = IF destination # None THEN destination[1] ELSE @,
      !.start_date      = IF start_date # None THEN start_date ELSE @,
      !.end_date        = IF end_date # None THEN end_date ELSE @,
      !.duration_days   = IF duration_days # None THEN duration_days ELSE @,
      !.budget          = IF budget # None THEN budget ELSE @,
      !.travelers_count = IF travelers_count # None
                          THEN travelers_count[1] ELSE @,
      !.status          = IF status # None THEN status[1] ELSE @ ]

\* tools.update_trip
update_trip(trip_id, destination, start_date, end_date, duration_days, budget, travelers_count, status) ==
  LET args == [ trip_id |-> trip_id, destination |-> destination,
                start_date |-> start_date, end_date |-> end_date,
                duration_days |-> duration_days, budget |-> budget,
                travelers_count |-> travelers_count, status |-> status ]
      trip == find_trip(trip_id)
  IN
  IF trip = None
  THEN /\ last' = Call("update_trip", args, NotFound(trip_id), None,
                       "not_found")
       /\ UNCHANGED <<trips, next_id, clock, inflight>>
  ELSE LET t == assign_fields(trips[trip[1]], destination, start_date,
                              end_date, duration_days, budget,
                              travelers_count, status)
       IN  /\ trips' = [trips EXCEPT ![trip[1]] = t]
           /\ last' = Call("update_trip", args,
                           [ trip_id |-> trip[1],
                             destination |-> t.destination,
                             status |-> "updated" ],
                           trip, "updated")
           /\ UNCHANGED <<next_id, clock, inflight>>

\* the metadata block of the PUT route: notes, checklist and expenses are
\* stored when given
assign_metadata(md, notes, checklist, expenses) ==
  LET md1 == IF notes # None THEN md_put(md, "notes", notes[1]) ELSE md
      md2 == IF checklist # None
             THEN md_put(md1, "checklist", checklist[1]) ELSE md1
  IN  IF expenses # None THEN md_put(md2, "expenses", expenses[1]) ELSE md2

\* main.update_trip, the handler of PUT /api/trips/{trip_id}; updates is the
\* TripUpdate body
api_update_trip(trip_id, updates) ==
  LET args == [ trip_id |-> trip_id, updates |-> updates ]
      trip == find_trip(trip_id)
  IN
  IF trip = None
  THEN /\ last' = Call("api_update_trip", args, HTTP404(trip_id), None,
                       "not_found")
       /\ UNCHANGED <<trips, next_id, clock, inflight>>
  ELSE LET t1 == assign_fields(trips[trip[1]], updates.destination,
                               updates.start_date, updates.end_date,
                               updates.duration_days, updates.budget,
                               updates.travelers_count, updates.status)
           t == [ t1 EXCEPT !.trip_metadata =
                    assign_metadata(@, updates.notes, updates.checklist,
                                    updates.expenses) ]
       IN  /\ trips' = [trips EXCEPT ![trip[1]] = t]
           /\ last' = Call("api_update_trip", args, t, trip, "updated")
           /\ UNCHANGED <<next_id, clock, inflight>>

\* ------------------------------------------------------------------------
\* Specification SpecUpdate: one user plans Tokyo with or without a budget;
\* the agent tool and the PUT route then change budget, status and notes
\* ------------------------------------------------------------------------

\* the trip ids of the requests: the rows the table may hold and one more
TripIds == 1..(MaxMergeTrips + 1)

\* the TripUpdate body with every field absent
NoUpdates ==
  [ destination |-> None, start_date |-> None, end_date |-> None,
    duration_days |-> None, budget |-> None, travelers_count |-> None,
    status |-> None, notes |-> None, checklist |-> None, expenses |-> None ]

PlanBudget ==
  \E budget \in { None, Some(100000) } :
    /\ plan_and_save_trip(Tokyo, 1, None, None, None, budget, 1, None, None)
    /\ Cardinality(DOMAIN trips') <= MaxMergeTrips

UpdateTrip ==
  \E trip_id \in TripIds,
     budget \in { None, Some(0), Some(60000000) },
     status \in { None, Some("booked"), Some("archived") } :
    update_trip(trip_id, None, None, None, None, budget, None, status)

PutTrip ==
  \E trip_id \in TripIds,
     budget \in { None, Some(-5000) },
     status \in { None, Some("completed") },
     notes \in { None, Some("window seat") } :
    api_update_trip(trip_id, [ NoUpdates EXCEPT !.budget = budget,
                                                !.status = status,
                                                !.notes = notes ])

NextUpdate == PlanBudget \/ UpdateTrip \/ PutTrip

SpecUpdate == Init /\ [][NextUpdate]_vars

\* C12: the budget of every stored trip is absent or within (0, 500000]
\* (budgets are in cents).
C12_StoredBudgetInRange ==
  \A id \in DOMAIN trips :
    \/ trips[id].budget = None
    \/ /\ trips[id].budget[1] > 0
       /\ trips[id].budget[1] <= MAX_BUDGET_USD * 100

\* the status enumeration of models.Trip
TripStatuses == { "planning", "booked", "completed", "cancelled" }

\* C13: the status of every stored trip is one of planning, booked,
\* completed, cancelled.
C13_StoredStatusInEnumeration ==
  \A id \in DOMAIN trips : trips[id].status \in TripStatuses

\* ------------------------------------------------------------------------
\* get_trip_details
\* ------------------------------------------------------------------------

\* trip.trip_metadata.get("preferences", []) with the list reversed
preferences_of_reversed(md) ==
  IF "preferences" \in DOMAIN md
  THEN [ i \in 1..Len(md["preferences"]) |->
           md["preferences"][Len(md["preferences"]) + 1 - i] ]
  ELSE <<>>

\* trip.trip_metadata.get("preferences", [])
preferences_of(md) ==
  IF "preferences" \in DOMAIN md THEN md["preferences"] ELSE <<>>

\* trip.trip_metadata.get("notes", "")
notes_of(md) == IF "notes" \in DOMAIN md THEN md["notes"] ELSE ""

\* tools.get_trip_details: a read, the store is left as it is
get_trip_details(trip_id) ==
  LET args == [ trip_id |-> trip_id ]
      found == find_trip(trip_id)
  IN
  /\ IF found = None
     THEN last' = Call("get_trip_details", args, NotFound(trip_id), None,
                       "not_found")
     ELSE LET trip == trips[found[1]]
          IN  last' = Call("get_trip_details", args,
                        [ id |-> found[1],
                          destination |-> trip.destination,
                          start_date |-> trip.start_date,
                          end_date |-> trip.end_date,
                          duration_days |-> trip.duration_days,
                          budget |-> trip.budget,
                          travelers_count |-> trip.travelers_count,
                          status |-> trip.status,
                          preferences |-> preferences_of(trip.trip_metadata),
                          notes |-> notes_of(trip.trip_metadata) ],
                        found, "found")
  /\ UNCHANGED <<trips, next_id, clock, inflight>>

\* ------------------------------------------------------------------------
\* The text-generation service and the document it is asked for
\* ------------------------------------------------------------------------

\* a time-of-day string, character by character
Time(h1, h2, m1, m2) == << h1, h2, ":", m1, m2 >>

\* one activity of a generated day
GeneratedActivity(day, n, time) ==
  [ id |-> [src |-> "act", day |-> day, n |-> n], time |-> time,
    type |-> "activity" ]

\* one day entry as the service writes it (its date label is left out)
GeneratedDay(day) ==
  [ day |-> day, date |-> None, title |-> "Day",
    activities |-> << GeneratedActivity(day, 1, Time("0","9","0","0")),
                      GeneratedActivity(day, 2, Time("1","4","0","0")) >> ]

\* an itinerary list of n day entries
GeneratedDays(n) == [ day \in 1..n |-> GeneratedDay(day) ]

\* the value under the key "itinerary" of a JSON object: the key is
\* missing, or holds null, or holds a list
JsonMissing == [ type |-> "missing", items |-> <<>> ]

JsonNull == [ type |-> "null", items |-> <<>> ]

JsonList(items) == [ type |-> "list", items |-> items ]

\* a JSON object with the keys itinerary, flights and hotels; flights and
\* hotels are None when the key is missing
JsonObject(itinerary, flights, hotels) ==
  [ json |-> "object", itinerary |-> itinerary, flights |-> flights,
    hotels |-> hotels ]

\* a JSON value that is not an object
JsonArray == [ json |-> "array" ]

\* text that is no JSON at all
NotJson == [ json |-> "invalid" ]

\* the completion: the call raised (failure or timeout), or returned text;
\* the text is the value written bare, in a code fence ("fence"), in a code
\* fence tagged json ("fence_json"), or after a sentence of prose ("prose")
Raised == [ kind |-> "raised" ]

Text(wrapper, value) == [ kind |-> "text", wrapper |-> wrapper,
                          value |-> value ]

\* content.strip(), the fence removal and json.loads: None stands for
\* json.JSONDecodeError
json_loads(content) ==
  IF content.wrapper \in {"bare", "fence", "fence_json"}
     /\ content.value.json # "invalid"
  THEN Some(content.value)
  ELSE None

\* ------------------------------------------------------------------------
\* generate_itinerary
\* ------------------------------------------------------------------------

\* trip.duration_days or 5
trip_duration_of(trip) ==
  IF trip.duration_days = None \/ trip.duration_days[1] = 0
  THEN 5
  ELSE trip.duration_days[1]

\* the number of days asked of the service: the duration capped at 5
capped_duration(trip_duration) ==
  IF trip_duration > 5 THEN 5 ELSE trip_duration

\* the start-date block: TRUE when datetime.fromisoformat raises ValueError
\* on the stored start_date
start_date_raises(trip) ==
  /\ TruthyDate(trip.start_date)
  /\ fromisoformat(replace_Z(trip.start_date[1])) = None

\* itinerary_config with is_partial set from the day the cap is reached
itinerary_config_partial_from_five(trip, trip_duration, days_generated) ==
  [ destination     |-> trip.destination,
    duration_days   |-> trip_duration,
    start_date      |-> IF TruthyDate(trip.start_date)
                        THEN trip.start_date ELSE None,
    detail_level    |-> "full",
    days_generated  |-> days_generated,
    total_trip_days |-> trip_duration,
    is_partial      |-> trip_duration >= 5 ]

\* current_metadata["itinerary_config"] (generated_at, a timestamp, is left
\* out)
itinerary_config(trip, trip_duration, days_generated) ==
  [ destination     |-> trip.destination,
    duration_days   |-> trip_duration,
    start_date      |-> IF TruthyDate(trip.start_date)
                        THEN trip.start_date ELSE None,
    detail_level    |-> "full",
    days_generated  |-> days_generated,
    total_trip_days |-> trip_duration,
    is_partial      |-> trip_duration > 5 ]

\* dict.get(key, []) of a key that is missing (None) or holds a list
get_list(value) == IF value = None THEN <<>> ELSE value[1]

\* the metadata written from a dict that holds only the generated keys
generated_metadata_from_empty(trip, metadata, itinerary_data, trip_duration) ==
  [ itinerary |-> itinerary_data.itinerary.items,
    flights |-> get_list(itinerary_data.flights),
    hotels |-> get_list(itinerary_data.hotels),
    itinerary_config |->
      itinerary_config(trip, trip_duration,
                       Len(itinerary_data.itinerary.items)) ]

\* current_metadata after the four assignments: the metadata dict with the
\* keys itinerary, flights, hotels and itinerary_config replaced
generated_metadata(trip, metadata, itinerary_data, trip_duration) ==
  LET md1 == md_put(metadata, "itinerary", itinerary_data.itinerary.items)
      md2 == md_put(md1, "flights", get_list(itinerary_data.flights))
      md3 == md_put(md2, "hotels", get_list(itinerary_data.hotels))
  IN  md_put(md3, "itinerary_config",
             itinerary_config(trip, trip_duration,
                              Len(itinerary_data.itinerary.items)))

\* {"error": ..., "details": str(e)}
GenerationError(error) == [ error |-> error ]

\* tools.generate_itinerary; completion is what the text-generation service
\* does when it is called (recorded with the arguments of the call)
generate_itinerary(trip_id, preferences, completion) ==
  LET args == [ trip_id |-> trip_id, preferences |-> preferences,
                completion |-> completion ]
      found == find_trip(trip_id)
      failed(result, branch) ==
        /\ last' = Call("generate_itinerary", args, result, found, branch)
        /\ UNCHANGED <<trips, next_id, clock, inflight>>
  IN
  IF found = None
  THEN /\ last' = Call("generate_itinerary", args, NotFound(trip_id), None,
                       "not_found")
       /\ UNCHANGED <<trips, next_id, clock, inflight>>
  ELSE
  LET trip == trips[found[1]]
      trip_duration == trip_duration_of(trip)
      duration == capped_duration(trip_duration)
  IN
  IF start_date_raises(trip)
  THEN \* ValueError outside the try block: the call raises
       failed([ raised |-> "ValueError" ], "raised_before_call")
  ELSE IF completion.kind = "raised"
  THEN failed(GenerationError("Failed to generate itinerary"), "call_failed")
  ELSE
  LET loaded == json_loads(completion)
  IN
  IF loaded = None
  THEN failed(GenerationError("Failed to parse itinerary from AI response"),
              "json_decode_error")
  ELSE IF loaded[1].json # "object"
  THEN \* itinerary_data.get raises AttributeError
       failed(GenerationError("Failed to generate itinerary"),
              "attribute_error")
  ELSE IF loaded[1].itinerary.type = "null"
  THEN \* len(None) raises TypeError
       failed(GenerationError("Failed to generate itinerary"), "type_error")
  ELSE
  LET itinerary_data == loaded[1]
      itinerary == itinerary_data.itinerary.items
      days_generated == Len(itinerary)
      current_metadata ==
        generated_metadata(trip, trip.trip_metadata, itinerary_data,
                           trip_duration)
  IN
  /\ trips' = [trips EXCEPT ![found[1]].trip_metadata = current_metadata]
  /\ last' = Call("generate_itinerary", args,
                  [ trip_id |-> found[1],
                    destination |-> trip.destination,
                    status |-> "generated",
                    days_generated |-> days_generated,
                    total_trip_days |-> trip_duration,
                    is_partial |-> trip_duration > 5,
                    detail_level |-> "full",
                    itinerary |-> itinerary,
                    flights |-> get_list(itinerary_data.flights),
                    hotels |-> get_list(itinerary_data.hotels) ],
                  found, "generated")
  /\ UNCHANGED <<next_id, clock, inflight>>

\* ------------------------------------------------------------------------
\* Specification SpecItinerary: a user plans one trip, the agent changes its
\* duration and generates itineraries for it, and for ids that do not exist
\* ------------------------------------------------------------------------

\* the longest itinerary list the text-generation service returns
MaxGeneratedDays == 6

\* the lengths of the itinerary lists the service returns
GeneratedLengths == { 0, 2, 3, 5, MaxGeneratedDays }

\* the flights and hotels lists of a document
MockFlights == Some(<< "flight_1" >>)

MockHotels == Some(<< "hotel_1" >>)

\* what the text-generation service may do
Completions ==
  { Raised, Text("bare", NotJson), Text("bare", JsonArray),
    Text("prose", JsonObject(JsonList(GeneratedDays(2)), MockFlights,
                             MockHotels)),
    Text("fence", JsonObject(JsonList(GeneratedDays(2)), None, None)),
    Text("fence_json", JsonObject(JsonList(GeneratedDays(3)), MockFlights,
                                  MockHotels)),
    Text("bare", JsonObject(JsonMissing, None, None)),
    Text("bare", JsonObject(JsonMissing, MockFlights, None)),
    Text("bare", JsonObject(JsonNull, MockFlights, MockHotels)) }
  \cup { Text("bare", JsonObject(JsonList(GeneratedDays(n)), MockFlights,
                                 MockHotels)) : n \in GeneratedLengths }

PlanOnce ==
  /\ trips = <<>>
  /\ \E start_date \in { None, March1, March20, FreeText },
        duration_days \in { None, Some(3), Some(10) } :
       plan_and_save_trip(Tokyo, 1, start_date, None, duration_days, None,
                          1, Some(<<"food", "culture">>), None)

ChangeDuration ==
  \E trip_id \in TripIds, duration_days \in { Some(0), Some(5), Some(6) } :
    update_trip(trip_id, None, None, None, duration_days, None, None, None)

GenerateItinerary ==
  \E trip_id \in TripIds, completion \in Completions :
    generate_itinerary(trip_id, None, completion)

NextItinerary == PlanOnce \/ ChangeDuration \/ GenerateItinerary

SpecItinerary == Init /\ [][NextItinerary]_vars

\* the call that has just returned is a generate_itinerary that succeeded
Generated ==
  /\ last.op = "generate_itinerary"
  /\ last.branch = "generated"

\* min(a, b)
Min(a, b) == IF a <= b THEN a ELSE b

\* C14: a successful generate_itinerary returns days_generated <=
\* min(duration, 5) and persists an itinerary of at most that many day
\* entries, whatever the text-generation service returns.
C14_GeneratedDaysCapped ==
  Generated
  => LET trip == trips[last.result.trip_id]
         cap == Min(trip_duration_of(trip), 5)
     IN  /\ last.result.days_generated <= cap
         /\ Len(trip.trip_metadata["itinerary"]) <= cap

\* the itinerary_config persisted for the trip of the last call
StoredConfig == trips[last.result.trip_id].trip_metadata["itinerary_config"]

\* the trip's duration_days exceeds 5 (a trip without duration_days has no
\* duration that exceeds 5)
DurationExceedsFive(trip) ==
  trip.duration_days # None /\ trip.duration_days[1] > 5

\* C15 as stated: after every successful generate_itinerary, is_partial in
\* the response and in the persisted itinerary_config is true exactly when
\* the trip's duration exceeds 5, total_trip_days equals the trip's
\* duration_days, and days_generated equals the number of day entries stored
\* in metadata.itinerary.
C15_ConfigMatchesDuration ==
  Generated
  => LET trip == trips[last.result.trip_id]
     IN  /\ last.result.is_partial = DurationExceedsFive(trip)
         /\ StoredConfig.is_partial = DurationExceedsFive(trip)
         /\ Some(StoredConfig.total_trip_days) = trip.duration_days
         /\ StoredConfig.days_generated
              = Len(trip.trip_metadata["itinerary"])

\* C15 as amended: after every successful generate_itinerary, is_partial in
\* the response and in the persisted itinerary_config is true exactly when
\* the trip's duration exceeds 5, total_trip_days equals the trip's
\* duration_days when the trip has one (not null, not 0) and 5 when it has
\* none, and days_generated equals the number of day entries stored in
\* metadata.itinerary.
C15_ConfigMatchesDurationOrDefault ==
  Generated
  => LET trip == trips[last.result.trip_id]
     IN  /\ last.result.is_partial = DurationExceedsFive(trip)
         /\ StoredConfig.is_partial = DurationExceedsFive(trip)
         /\ StoredConfig.total_trip_days
              = IF trip.duration_days = None \/ trip.duration_days[1] = 0
                THEN 5 ELSE trip.duration_days[1]
         /\ last.result.total_trip_days = StoredConfig.total_trip_days
         /\ StoredConfig.days_generated
              = Len(trip.trip_metadata["itinerary"])
         /\ last.result.days_generated = StoredConfig.days_generated

\* C15 witness: a 10-day trip has just been given a partial itinerary of
\* five day entries.
C15_Witness ==
  /\ Generated
  /\ trips[last.result.trip_id].duration_days = Some(10)
  /\ last.result.is_partial
  /\ StoredConfig.total_trip_days = 10
  /\ StoredConfig.days_generated = 5
  /\ Len(trips[last.result.trip_id].trip_metadata["itinerary"]) = 5

\* the call that has just returned is a generate_itinerary on a trip of the
\* store
GenerateOnExisting(c) ==
  /\ c.op = "generate_itinerary"
  /\ c.existing # None

\* the call went as far as the text-generation service
CalledTextGeneration(c) ==
  /\ c.op = "generate_itinerary"
  /\ c.branch \notin { "not_found", "raised_before_call" }

\* the completion is text that parses to a JSON object holding an itinerary
\* list
HasItineraryShape(completion) ==
  /\ completion.kind = "text"
  /\ completion.wrapper \in { "bare", "fence", "fence_json" }
  /\ completion.value.json = "object"
  /\ completion.value.itinerary.type = "list"

\* the result is an error outcome
IsErrorOutcome(result) == "error" \in DOMAIN result

\* C16: when the text-generation call fails, times out, returns text that
\* does not parse or returns output without the itinerary shape, the stored
\* trip record is unchanged and an error outcome is returned.
C16_MalformedOutputLeavesTripUntouched ==
  [][ ( GenerateOnExisting(last') /\ CalledTextGeneration(last')
        /\ ~HasItineraryShape(last'.args.completion) )
      => /\ trips' = trips
         /\ IsErrorOutcome(last'.result)
    ]_vars

\* C17: every failed generate_itinerary call on an existing trip returns an
\* error outcome (a result carrying an error field); it never raises.
C17_FailureIsReturnedNotRaised ==
  ( GenerateOnExisting(last) /\ last.branch # "generated" )
  => IsErrorOutcome(last.result)

\* ------------------------------------------------------------------------
\* POST /api/trips/{trip_id}/activities and /api/trips/{trip_id}/travel/save
\* ------------------------------------------------------------------------

\* ord(c) of the characters of a time string
Ord(c) ==
  CASE c = "0" -> 48 [] c = "1" -> 49 [] c = "2" -> 50 [] c = "3" -> 51
    [] c = "4" -> 52 [] c = "5" -> 53 [] c = "6" -> 54 [] c = "7" -> 55
    [] c = "8" -> 56 [] c = "9" -> 57 [] c = ":" -> 58

\* a > b on strings: the first differing character decides, a proper
\* prefix is smaller
RECURSIVE str_gt(_, _)
str_gt(a, b) ==
  IF a = <<>> THEN FALSE
  ELSE IF b = <<>> THEN TRUE
  ELSE IF Head(a) # Head(b) THEN Ord(Head(a)) > Ord(Head(b))
  ELSE str_gt(Tail(a), Tail(b))

\* next((i for i, a in enumerate(activities) if a["time"] > time),
\* len(activities)), 1-based
insert_index(activities, time) ==
  IF \E i \in 1..Len(activities) : str_gt(activities[i].time, time)
  THEN CHOOSE i \in 1..Len(activities) :
         /\ str_gt(activities[i].time, time)
         /\ \A j \in 1..(i - 1) : ~str_gt(activities[j].time, time)
  ELSE Len(activities) + 1

\* list.insert(index, x), 1-based
list_insert(seq, index, x) ==
  SubSeq(seq, 1, index - 1) \o << x >> \o SubSeq(seq, index, Len(seq))

\* itinerary.sort(key=lambda d: d.get("day", 0)): a stable sort
RECURSIVE sort_by_day(_)
sort_by_day(itinerary) ==
  IF itinerary = <<>> THEN <<>>
  ELSE LET first == CHOOSE i \in 1..Len(itinerary) :
                      /\ \A j \in 1..Len(itinerary) :
                           itinerary[i].day <= itinerary[j].day
                      /\ \A j \in 1..(i - 1) :
                           itinerary[j].day > itinerary[i].day
           rest == SubSeq(itinerary, 1, first - 1)
                     \o SubSeq(itinerary, first + 1, Len(itinerary))
       IN  << itinerary[first] >> \o sort_by_day(rest)

\* _compute_day_date: start_date plus day - 1 days when start_date is a
\* YYYY-MM-DD string, "" (None here) otherwise
_compute_day_date(trip, day) ==
  IF TruthyDate(trip.start_date) /\ strptime_ymd(trip.start_date[1]) # None
  THEN Some([ start |-> strptime_ymd(trip.start_date[1])[1],
              plus_days |-> day - 1 ])
  ELSE None

\* the ids of the activities of an itinerary
activity_ids(itinerary) ==
  UNION { { itinerary[d].activities[i].id :
              i \in 1..Len(itinerary[d].activities) } :
          d \in 1..Len(itinerary) }

\* f"manual_{uuid.uuid4().hex[:12]}": an id no activity of the trip has
manual_id(itinerary) ==
  [ src |-> "manual", day |-> 0,
    n |-> CHOOSE n \in 1..(Cardinality(activity_ids(itinerary)) + 1) :
            /\ [src |-> "manual", day |-> 0, n |-> n]
                 \notin activity_ids(itinerary)
            /\ \A m \in 1..(n - 1) :
                 [src |-> "manual", day |-> 0, n |-> m]
                   \in activity_ids(itinerary) ]

\* metadata.get("itinerary", [])
itinerary_of(md) == IF "itinerary" \in DOMAIN md THEN md["itinerary"] ELSE <<>>

\* the itinerary of the trip with the activity inserted into its day entry,
\* or with a new day entry that holds it
itinerary_with_activity(trip, activity) ==
  LET itinerary == itinerary_of(trip.trip_metadata)
      new_activity == [ id |-> manual_id(itinerary), time |-> activity.time,
                        type |-> activity.type ]
      days == { d \in 1..Len(itinerary) : itinerary[d].day = activity.day }
  IN  IF days # {}
      THEN LET d == CHOOSE d \in days : \A other \in days : d <= other
               activities == itinerary[d].activities
           IN  [ itinerary EXCEPT ![d].activities =
                   list_insert(activities,
                               insert_index(activities, activity.time),
                               new_activity) ]
      ELSE sort_by_day(Append(itinerary,
             [ day |-> activity.day,
               date |-> _compute_day_date(trip, activity.day),
               title |-> "Day",
               activities |-> << new_activity >> ]))

\* main.add_activity; activity is the ActivityCreate body (location,
\* description and notes are left out)
add_activity(trip_id, activity) ==
  LET args == [ trip_id |-> trip_id, activity |-> activity ]
      found == find_trip(trip_id)
  IN
  IF found = None
  THEN /\ last' = Call("add_activity", args, HTTP404(trip_id), None,
                       "not_found")
       /\ UNCHANGED <<trips, next_id, clock, inflight>>
  ELSE
  LET trip == trips[found[1]]
      itinerary == itinerary_of(trip.trip_metadata)
      days == { d \in 1..Len(itinerary) : itinerary[d].day = activity.day }
      t == [ trip EXCEPT !.trip_metadata =
               md_put(@, "itinerary", itinerary_with_activity(trip, activity)) ]
  IN
  /\ trips' = [trips EXCEPT ![found[1]] = t]
  /\ last' = Call("add_activity", args, t, found,
                  IF days # {} THEN "existing_day" ELSE "new_day")
  /\ UNCHANGED <<next_id, clock, inflight>>

\* main.save_travel_item; type and item are the TravelSaveRequest body
save_travel_item(trip_id, type, item) ==
  LET args == [ trip_id |-> trip_id, type |-> type, item |-> item ]
      found == find_trip(trip_id)
  IN
  IF type \notin { "flights", "hotels", "transport" }
  THEN /\ last' = Call("save_travel_item", args,
                       [ status_code |-> 400, trip_id |-> trip_id ], None,
                       "bad_type")
       /\ UNCHANGED <<trips, next_id, clock, inflight>>
  ELSE IF found = None
  THEN /\ last' = Call("save_travel_item", args, HTTP404(trip_id), None,
                       "not_found")
       /\ UNCHANGED <<trips, next_id, clock, inflight>>
  ELSE
  LET trip == trips[found[1]]
      existing == IF type \in DOMAIN trip.trip_metadata
                  THEN trip.trip_metadata[type] ELSE <<>>
      t == [ trip EXCEPT !.trip_metadata =
               md_put(@, type, Append(existing, item)) ]
  IN
  /\ trips' = [trips EXCEPT ![found[1]] = t]
  /\ last' = Call("save_travel_item", args, t, found, "saved")
  /\ UNCHANGED <<next_id, clock, inflight>>

\* ------------------------------------------------------------------------
\* Specification SpecMissing: a user plans Tokyo; the agent books trips,
\* reads them and generates itineraries, also for ids that are not in the
\* store
\* ------------------------------------------------------------------------

PlanTokyo ==
  /\ plan_and_save_trip(Tokyo, 1, None, None, None, None, 1, None, None)
  /\ Cardinality(DOMAIN trips') <= MaxMergeTrips

BookTrip ==
  \E trip_id \in TripIds, budget \in { None, Some(200000) },
     status \in { None, Some("booked") } :
    update_trip(trip_id, None, None, None, None, budget, None, status)

GetTripDetails == \E trip_id \in TripIds : get_trip_details(trip_id)

GenerateForAnyId ==
  \E trip_id \in TripIds,
     completion \in { Raised, Text("bare", NotJson),
                      Text("fence_json",
                           JsonObject(JsonList(GeneratedDays(2)),
                                      MockFlights, MockHotels)) } :
    generate_itinerary(trip_id, None, completion)

NextMissing == PlanTokyo \/ BookTrip \/ GetTripDetails \/ GenerateForAnyId

SpecMissing == Init /\ [][NextMissing]_vars

\* C18: update_trip, get_trip_details and generate_itinerary called with a
\* trip id that is not in the store return a not-found outcome and leave the
\* store unchanged, and no text-generation call is made.
C18_MissingTripIsNotFound ==
  [][ ( last'.op \in { "update_trip", "get_trip_details",
                       "generate_itinerary" }
        /\ last'.args.trip_id \notin DOMAIN trips )
      => /\ last'.result = NotFound(last'.args.trip_id)
         /\ trips' = trips
         /\ next_id' = next_id
         /\ ~CalledTextGeneration(last')
    ]_vars

\* C18 witness: update_trip(trip_id, status="booked") on an id that is not
\* in the store has just returned not found while the store holds a trip.
C18_Witness ==
  /\ last.op = "update_trip"
  /\ last.args.status = Some("booked")
  /\ last.args.trip_id \notin DOMAIN trips
  /\ DOMAIN trips # {}
  /\ last.result = NotFound(last.args.trip_id)

\* ------------------------------------------------------------------------
\* Specification SpecPrefs: a user plans Tokyo in March with and without
\* preferences; the trip is then updated, given activities, travel items and
\* itineraries, and read back
\* ------------------------------------------------------------------------

\* manual activities and saved travel items a trip may collect
MaxAdded == 1

FoodCulture == << "food", "culture" >>

CultureFood == << "culture", "food" >>

\* the manual activities of a trip
manual_activities(trip) ==
  { id \in activity_ids(itinerary_of(trip.trip_metadata)) :
      id.src = "manual" }

PlanPreferences ==
  \E start_date \in { March1, March27 },
     preferences \in { None, Some(<<>>), Some(FoodCulture),
                       Some(CultureFood) } :
    plan_and_save_trip(Tokyo, 1, start_date, None, None, None, 1,
                       preferences, None)

PrefsUpdateTrip ==
  \E trip_id \in TripIds :
    update_trip(trip_id, None, None, None, Some(4), Some(200000), None, None)

PrefsGetTripDetails == \E trip_id \in TripIds : get_trip_details(trip_id)

PrefsGenerateItinerary ==
  \E trip_id \in TripIds,
     completion \in { Raised,
                      Text("fence_json",
                           JsonObject(JsonList(GeneratedDays(2)),
                                      MockFlights, MockHotels)) } :
    generate_itinerary(trip_id, Some(CultureFood), completion)

PrefsAddActivity ==
  \E trip_id \in TripIds, day \in { 1, 3 } :
    /\ add_activity(trip_id, [ day |-> day, time |-> Time("1","0","3","0"),
                               type |-> "dining" ])
    /\ \A id \in DOMAIN trips' :
         Cardinality(manual_activities(trips'[id])) <= MaxAdded

PrefsSaveTravelItem ==
  \E trip_id \in TripIds, type \in { "flights", "cruises" } :
    /\ save_travel_item(trip_id, type, "suggestion_1")
    /\ \A id \in DOMAIN trips' :
         "flights" \in DOMAIN trips'[id].trip_metadata
           => Len(trips'[id].trip_metadata["flights"]) <= MaxAdded + 1

NextPrefs ==
  \/ PlanPreferences
  \/ PrefsUpdateTrip
  \/ PrefsGetTripDetails
  \/ PrefsGenerateItinerary
  \/ PrefsAddActivity
  \/ PrefsSaveTravelItem

SpecPrefs == Init /\ [][NextPrefs]_vars

\* the step is a plan_and_save_trip that supplies preferences
SuppliesPreferences(c) ==
  /\ IsPlanCall(c)
  /\ c.args.preferences # None

\* C19: a trip created by plan_and_save_trip with a preferences list returns
\* exactly that list, in the same order, from a later get_trip_details, as
\* long as no later plan_and_save_trip call supplies new preferences:
\* the created trip stores the list of the request; every step that is not a
\* plan_and_save_trip supplying preferences (update_trip, add_activity,
\* save_travel_item, generate_itinerary, get_trip_details, a
\* plan_and_save_trip without preferences) leaves the stored list of every
\* trip as it is; and get_trip_details returns the stored list.
C19_PreferencesRoundTrip ==
  [][ /\ ( IsPlanCall(last') /\ last'.result.status = "created"
           /\ last'.args.preferences # None )
        => trips'[last'.result.trip_id].trip_metadata["preferences"]
             = last'.args.preferences[1]
      /\ ~SuppliesPreferences(last')
        => \A id \in DOMAIN trips :
             /\ id \in DOMAIN trips'
             /\ "preferences" \in DOMAIN trips'[id].trip_metadata
             /\ trips'[id].trip_metadata["preferences"]
                  = trips[id].trip_metadata["preferences"]
      /\ ( last'.op = "get_trip_details" /\ last'.branch = "found" )
        => last'.result.preferences
             = trips[last'.args.trip_id].trip_metadata["preferences"]
    ]_vars

\* C19 witness: get_trip_details has just returned ["food", "culture"] for a
\* trip that has since its creation been updated, given an itinerary, a
\* manual activity and a saved flight.
C19_Witness ==
  /\ last.op = "get_trip_details"
  /\ last.branch = "found"
  /\ last.result.preferences = FoodCulture
  /\ last.result.budget = Some(200000)
  /\ "itinerary_config" \in DOMAIN trips[last.args.trip_id].trip_metadata
  /\ manual_activities(trips[last.args.trip_id]) # {}
  /\ Len(trips[last.args.trip_id].trip_metadata["flights"]) = 2

\* ------------------------------------------------------------------------
\* Specification SpecActivities: a user plans one trip, has an itinerary
\* generated for it and adds activities by hand
\* ------------------------------------------------------------------------

\* the time strings of the manual activities: "HH:MM" and "H:MM"
Time3(h, m1, m2) == << h, ":", m1, m2 >>

ActivityTimes ==
  { Time("0","8","0","0"), Time("0","9","0","0"), Time("1","2","3","0"),
    Time("1","8","0","0"), Time3("9","3","0") }

PlanOneTrip ==
  /\ trips = <<>>
  /\ \E start_date \in { None, March1 } :
       plan_and_save_trip(Tokyo, 1, start_date, None, Some(3), None, 1,
                          None, None)

GenerateTwoDays ==
  \E trip_id \in TripIds :
    generate_itinerary(trip_id, None,
      Text("bare", JsonObject(JsonList(GeneratedDays(2)), None, None)))

AddActivity ==
  \E trip_id \in TripIds, day \in { 1, 3 }, time \in ActivityTimes :
    /\ add_activity(trip_id, [ day |-> day, time |-> time,
                               type |-> "dining" ])
    /\ \A id \in DOMAIN trips' :
         Cardinality(manual_activities(trips'[id])) <= MaxAdded + 1

NextActivities == PlanOneTrip \/ GenerateTwoDays \/ AddActivity

SpecActivities == Init /\ [][NextActivities]_vars

\* the value of a digit
DigitValue(c) == Ord(c) - 48

\* the time of day of a time string "HH:MM" or "H:MM", in minutes
TimeOfDay(time) ==
  IF Len(time) = 5
  THEN (DigitValue(time[1]) * 10 + DigitValue(time[2])) * 60
         + DigitValue(time[4]) * 10 + DigitValue(time[5])
  ELSE DigitValue(time[1]) * 60
         + DigitValue(time[3]) * 10 + DigitValue(time[4])

\* the activities are ordered by non-decreasing time of day
OrderedByTime(activities) ==
  \A i, j \in 1..Len(activities) :
    i < j => TimeOfDay(activities[i].time) <= TimeOfDay(activities[j].time)

\* the day entry of the itinerary with the given day number
DayEntry(itinerary, day) ==
  itinerary[CHOOSE d \in 1..Len(itinerary) : itinerary[d].day = day]

HasDay(itinerary, day) ==
  \E d \in 1..Len(itinerary) : itinerary[d].day = day

\* C20: manual insertion preserves time ordering. When the day exists and
\* its activities are ordered by non-decreasing time before add_activity,
\* they are ordered after it, the new activity comes after every existing
\* activity with an equal or earlier time, and the existing activities keep
\* their relative order; when the day does not exist a new day entry is
\* created and the day entries stay ordered by day number.
C20_InsertionKeepsTimeOrder ==
  [][ ( last'.op = "add_activity" /\ last'.existing # None )
      => LET id == last'.existing[1]
             a == last'.args.activity
             old == itinerary_of(trips[id].trip_metadata)
             new == itinerary_of(trips'[id].trip_metadata)
         IN  IF HasDay(old, a.day)
             THEN LET before == DayEntry(old, a.day).activities
                      after == DayEntry(new, a.day).activities
                      added == CHOOSE i \in 1..Len(after) :
                                 after[i].id \notin activity_ids(old)
                  IN  /\ Len(after) = Len(before) + 1
                      /\ after[added].time = a.time
                      /\ SubSeq(after, 1, added - 1)
                           \o SubSeq(after, added + 1, Len(after)) = before
                      /\ \A i \in 1..Len(after) :
                           ( i # added
                             /\ TimeOfDay(after[i].time) <= TimeOfDay(a.time) )
                           => i < added
                      /\ OrderedByTime(before) => OrderedByTime(after)
             ELSE /\ HasDay(new, a.day)
                  /\ Len(new) = Len(old) + 1
                  /\ Len(DayEntry(new, a.day).activities) = 1
                  /\ DayEntry(new, a.day).activities[1].time = a.time
                  /\ \A i, j \in 1..Len(new) :
                       i < j => new[i].day <= new[j].day
    ]_vars

\* ------------------------------------------------------------------------
\* The chat pipeline: POST /api/chat (main.chat_with_agent) and
\* TripMindAgent (agents/base_agent.py)
\* ------------------------------------------------------------------------

\* a user id with no row in the users table
UnknownUser == 3

\* sub in s, for strings
RECURSIVE contains(_, _)
contains(s, sub) ==
  IF Len(s) < Len(sub) THEN FALSE
  ELSE IF SubSeq(s, 1, Len(sub)) = sub THEN TRUE
  ELSE contains(Tail(s), sub)

\* TripMindAgent._fetch_trip_context: the trip when it belongs to the user
_fetch_trip_context(user_id, trip_id) ==
  IF trip_id \in DOMAIN trips /\ trips[trip_id].user_id = user_id
  THEN Some([ id            |-> trip_id,
              destination   |-> trips[trip_id].destination,
              start_date    |-> trips[trip_id].start_date,
              end_date      |-> trips[trip_id].end_date,
              duration_days |-> trips[trip_id].duration_days,
              budget        |-> trips[trip_id].budget,
              status        |-> trips[trip_id].status ])
  ELSE None

\* TripMindAgent.__init__: the agent bound to a user, with the trip context
\* loaded when a trip id is given
TripMindAgent(user_id, trip_id) ==
  [ op           |-> "chat_with_agent",
    user_id      |-> user_id,
    trip_id      |-> trip_id,
    trip_context |-> IF trip_id = None THEN None
                     ELSE _fetch_trip_context(user_id, trip_id[1]),
    stage        |-> "agent",
    response     |-> None ]

\* the tools bound to the agent (TripMindAgent._create_tools)
plan_trip_wrapper(self, destination, start_date, end_date, duration_days, budget, travelers_count, preferences) ==
  plan_and_save_trip(destination, self.user_id, start_date, end_date,
                     duration_days, budget, travelers_count, preferences,
                     None)

get_trip_wrapper(self, trip_id) == get_trip_details(trip_id)

update_trip_wrapper(self, trip_id, destination, start_date, end_date, duration_days, budget, travelers_count, status) ==
  update_trip(trip_id, destination, start_date, end_date, duration_days,
              budget, travelers_count, status)

generate_itinerary_wrapper(self, trip_id, preferences, completion) ==
  generate_itinerary(trip_id, preferences, completion)

\* TripMindAgent._infer_action
_infer_action(output) ==
  LET output_lower == lower(output)
  IN  IF \E word \in { <<"s","a","v","e","d">>,
                       <<"c","r","e","a","t","e","d">>,
                       <<"p","l","a","n","n","e","d">> } :
           contains(output_lower, word)
      THEN "created_trip"
      ELSE IF contains(output_lower, <<"t","r","i","p","s">>)
      THEN "retrieved_trips"
      ELSE "answered_question"

\* what agent_executor.ainvoke does: it raises, or returns a result dict
\* with or without an output
AinvokeRaised == [ kind |-> "raised", output |-> None ]

AinvokeResult(output) == [ kind |-> "result", output |-> output ]

\* the text of a response: the agent's output, or one of the fixed messages
AgentText(output) == [ kind |-> "output", text |-> output ]

DefaultText == [ kind |-> "default", text |-> <<>> ]

ApologyText == [ kind |-> "apology", text |-> <<>> ]

ErrorText == [ kind |-> "error", text |-> <<>> ]

\* process_message without its except block: the fault propagates
process_message_without_except(ainvoke) ==
  IF ainvoke.kind = "raised"
  THEN [ raised |-> "Exception" ]
  ELSE [ response     |-> IF ainvoke.output = None THEN DefaultText
                          ELSE AgentText(ainvoke.output[1]),
         action_taken |-> _infer_action(IF ainvoke.output = None THEN <<>>
                                        ELSE ainvoke.output[1]),
         trip_data    |-> None ]

\* TripMindAgent.process_message, given what ainvoke does; the executor
\* returns no intermediate steps, so trip_data stays None
process_message(ainvoke) ==
  IF ainvoke.kind = "raised"
  THEN [ response     |-> ApologyText,
         action_taken |-> "error",
         trip_data    |-> None ]
  ELSE [ response     |-> IF ainvoke.output = None THEN DefaultText
                          ELSE AgentText(ainvoke.output[1]),
         action_taken |-> _infer_action(IF ainvoke.output = None THEN <<>>
                                        ELSE ainvoke.output[1]),
         trip_data    |-> None ]

ChatResponse(message, action_taken, trip_data) ==
  [ message |-> message, action_taken |-> action_taken,
    trip_data |-> trip_data ]

\* the try block of chat_with_agent once process_message has returned or
\* raised
chat_response(response) ==
  IF "raised" \in DOMAIN response \/ "response" \notin DOMAIN response
  THEN ChatResponse(ErrorText, "error", None)
  ELSE ChatResponse(response.response,
                    IF "action_taken" \in DOMAIN response
                    THEN response.action_taken ELSE "answered_question",
                    IF "trip_data" \in DOMAIN response
                    THEN response.trip_data ELSE None)

\* HTTPException(status_code=404, detail="User ... not found")
UserNotFound(user_id) == [ status_code |-> 404, user_id |-> user_id ]

\* the tool call raised: the exception leaves agent_executor.ainvoke
ToolRaised(c) ==
  /\ c.op = "generate_itinerary"
  /\ c.branch = "raised_before_call"

\* chat_with_agent up to the call of process_message: the user lookup and
\* the construction of the agent, which may raise
chat_with_agent(user_id, trip_id, constructor_raises) ==
  LET args == [ user_id |-> user_id, trip_id |-> trip_id ]
  IN  IF user_id \notin Users
      THEN /\ last' = Call("chat_with_agent", args, UserNotFound(user_id),
                           None, "user_not_found")
           /\ UNCHANGED <<trips, next_id, clock, inflight>>
      ELSE IF constructor_raises
      THEN /\ last' = Call("chat_with_agent", args,
                           ChatResponse(ErrorText, "error", None), None,
                           "constructor_raised")
           /\ UNCHANGED <<trips, next_id, clock, inflight>>
      ELSE /\ inflight' = inflight \cup { TripMindAgent(user_id, trip_id) }
           /\ last' = Call("TripMindAgent", args, None, None, "constructed")
           /\ UNCHANGED <<trips, next_id, clock>>

\* process_message returns to chat_with_agent: ainvoke has raised when a
\* tool raised or when the agent or the store failed
process_message_returns(self, fault, output) ==
  LET tool_raised == ToolRaised(last)
      ainvoke == IF fault \/ tool_raised THEN AinvokeRaised
                 ELSE AinvokeResult(output)
      response == process_message(ainvoke)
  IN  /\ self.stage = "agent"
      /\ inflight' = (inflight \ {self})
                     \cup { [self EXCEPT !.stage = "returned",
                                         !.response = Some(response)] }
      /\ last' = Call("process_message",
                      [ user_id |-> self.user_id, ainvoke |-> ainvoke,
                        tool_raised |-> tool_raised ],
                      response, None,
                      IF ainvoke.kind = "raised" THEN "caught"
                      ELSE "returned")
      /\ UNCHANGED <<trips, next_id, clock>>

\* chat_with_agent from the return of process_message to its own return
chat_with_agent_returns(self) ==
  /\ self.stage = "returned"
  /\ inflight' = inflight \ {self}
  /\ last' = Call("chat_with_agent",
                  [ user_id |-> self.user_id, trip_id |-> self.trip_id ],
                  chat_response(self.response[1]), None, "responded")
  /\ UNCHANGED <<trips, next_id, clock>>

\* ------------------------------------------------------------------------
\* Specification SpecChat: users 1 and 2 and an unknown user send chat
\* messages, one request at a time; the agent of a request calls its tools
\* with any trip id, and the agent, a tool or the store may fail
\* ------------------------------------------------------------------------

Saved == <<"T","r","i","p"," ","S","a","v","e","d">>

YourTrips == <<"Y","o","u","r"," ","t","r","i","p","s">>

Hello == <<"H","e","l","l","o">>

AgentOutputs == { None, Some(Saved), Some(YourTrips), Some(Hello) }

\* the agent of the request in flight may call a tool
CallsTools(self) ==
  /\ self \in inflight
  /\ self.op = "chat_with_agent"
  /\ self.stage = "agent"
  /\ ~ToolRaised(last)

ChatRequest ==
  /\ inflight = {}
  /\ \E user_id \in Users \cup { UnknownUser },
        trip_id \in { None, Some(1) },
        constructor_raises \in BOOLEAN :
       chat_with_agent(user_id, trip_id, constructor_raises)

AgentPlanTrip ==
  \E self \in inflight, start_date \in { None, FreeText } :
    /\ CallsTools(self)
    /\ plan_trip_wrapper(self, Tokyo, start_date, None, None, None, 1, None)
    /\ Cardinality(DOMAIN trips') <= MaxMergeTrips + 1

AgentGetTrip ==
  \E self \in inflight, trip_id \in TripIds :
    /\ CallsTools(self)
    /\ get_trip_wrapper(self, trip_id)

AgentUpdateTrip ==
  \E self \in inflight, trip_id \in TripIds :
    /\ CallsTools(self)
    /\ update_trip_wrapper(self, trip_id, None, None, None, None, None,
                           None, Some("booked"))

AgentGenerateItinerary ==
  \E self \in inflight, trip_id \in TripIds,
     completion \in { Raised,
                      Text("fence_json",
                           JsonObject(JsonList(GeneratedDays(2)),
                                      MockFlights, MockHotels)) } :
    /\ CallsTools(self)
    /\ generate_itinerary_wrapper(self, trip_id, None, completion)

ProcessMessageReturns ==
  \E self \in inflight, fault \in BOOLEAN, output \in AgentOutputs :
    process_message_returns(self, fault, output)

ChatResponds == \E self \in inflight : chat_with_agent_returns(self)

NextChat ==
  \/ ChatRequest
  \/ AgentPlanTrip
  \/ AgentGetTrip
  \/ AgentUpdateTrip
  \/ AgentGenerateItinerary
  \/ ProcessMessageReturns
  \/ ChatResponds

SpecChat == Init /\ [][NextChat]_vars

NonPlanningStatuses == { "booked", "completed", "cancelled" }

PlanAnyMonth ==
  \E start_date \in { None, March1, November20 } :
    /\ plan_and_save_trip(Tokyo, 1, start_date, None, None, None, 1,
                          Some(<<"food">>), None)
    /\ Cardinality(DOMAIN trips') <= MaxMergeTrips + 1

ChangeStatus ==
  \E trip_id \in TripIds,
     status \in NonPlanningStatuses \cup { "planning" } :
    update_trip(trip_id, None, None, None, None, None, None, Some(status))

NextStatus == PlanAnyMonth \/ ChangeStatus

SpecStatus == Init /\ [][NextStatus]_vars

\* C22: plan_and_save_trip never modifies a trip whose status is booked,
\* completed or cancelled, and a valid request made when the user's trips to
\* the destination are all non-planning inserts a new trip and returns
\* created.
C22_OnlyPlanningTripsMerge ==
  [][ IsPlanCall(last')
      => LET a == last'.args
             to == TripsTo(trips, a.user_id, a.destination)
         IN  /\ \A id \in DOMAIN trips :
                  trips[id].status \in NonPlanningStatuses
                  => /\ id \in DOMAIN trips'
                     /\ trips'[id] = trips[id]
             /\ ( /\ PassesValidation(a)
                  /\ to # {}
                  /\ \A id \in to :
                       trips[id].status \in NonPlanningStatuses )
                => /\ last'.result.status = "created"
                   /\ last'.result.trip_id \notin DOMAIN trips
                   /\ last'.result.trip_id \in DOMAIN trips'
                   /\ trips'[last'.result.trip_id].status = "planning"
    ]_vars

\* C22 witness: a dated request for Tokyo has just been inserted next to the
\* user's booked trip to Tokyo in the same month.
C22_Witness ==
  /\ IsPlanCall(last)
  /\ last.result.status = "created"
  /\ \E id \in TripsTo(trips, 1, Tokyo) :
       /\ id # last.result.trip_id
       /\ trips[id].status = "booked"
       /\ HasMonthYear(trips[id].start_date)
       /\ HasMonthYear(last.args.start_date)
       /\ MonthYearOf(trips[id].start_date)
            = MonthYearOf(last.args.start_date)

\* ------------------------------------------------------------------------
\* Properties of the date rules (specification SpecValidate)
\* ------------------------------------------------------------------------

\* the budget passes the budget rules
ValidBudget(budget) ==
  budget = None \/ (0 < budget[1] /\ budget[1] <= 500000 * 100)

\* the (year, month) of date a is strictly before the (year, month) of b
MonthBefore(a, b) == a.y < b.y \/ (a.y = b.y /\ a.m < b.m)

\* C23: for a valid destination and budget, validation fails with the
\* already-passed error exactly when start_date parses and its (year, month)
\* is strictly before the current (year, month); a start date in the current
\* month is not rejected, even on a day before today.
C23_PastMonthRejected ==
  ( /\ Validated
    /\ ValidDestination(last.args.destination)
    /\ ValidBudget(last.args.budget) )
  => ( last.result = ValidationError("already_passed")
       <=> /\ ParsedDate(last.args.start_date) # None
           /\ MonthBefore(ParsedDate(last.args.start_date)[1],
                          utcnow(clock)) )

\* C23 witness: a start date on the 1st of the current month, before today,
\* was validated and accepted.
C23_Witness ==
  /\ Validated
  /\ ValidDestination(last.args.destination)
  /\ ValidBudget(last.args.budget)
  /\ ParsedDate(last.args.start_date) # None
  /\ ParsedDate(last.args.start_date)[1].y = utcnow(clock).y
  /\ ParsedDate(last.args.start_date)[1].m = utcnow(clock).m
  /\ ParsedDate(last.args.start_date)[1].d < utcnow(clock).d
  /\ last.result = None

\* ------------------------------------------------------------------------
\* Specification SpecUnparseable: a user plans Tokyo with start and end
\* dates of every shape, parseable or not
\* ------------------------------------------------------------------------

February27 == DateStr("iso", 2027, 2, 27, 0)

UnparseableStartDates == { None, FreeText, March1, March20, October5 }

UnparseableEndDates == { None, FreeText, February27 }

PlanAnyDates ==
  \E start_date \in UnparseableStartDates,
     end_date \in UnparseableEndDates :
    /\ plan_and_save_trip(Tokyo, 1, start_date, end_date, None, None, 1,
                          None, None)
    /\ Cardinality(DOMAIN trips') <= MaxMergeTrips + 1

NextUnparseable == PlanAnyDates

SpecUnparseable == Init /\ [][NextUnparseable]_vars

\* the date string is present and the validator's parse
\* (datetime.fromisoformat) rejects it
UnparseableToValidator(date) == TruthyDate(date) /\ ParsedDate(date) = None

\* the date string is present and the deduplication parse
\* (datetime.strptime of its first ten characters) rejects it
UnparseableToDedup(date) == TruthyDate(date) /\ ~HasMonthYear(date)

\* the validation outcome of a call: the error dict, None when it passed
ValidationOutcome(c) ==
  IF c.branch = "validation_error" THEN Some(c.result) ELSE None

DateErrors == { "already_passed", "end_not_after_start", "span_too_long" }

\* C24: a date string that a date-based check cannot parse is treated as
\* absent by that check. In validation an unparseable start_date gives the
\* outcome of the same request without start_date and none of the three
\* date errors, and an unparseable end_date gives the outcome of the same
\* request without end_date and neither end-date error. In deduplication a
\* request whose start_date is unparseable takes the branch of an undated
\* request (insert when no trip matches or the match is dated, clarification
\* when the match is undated), and a matched trip whose stored start_date is
\* unparseable is handled as an undated trip (clarification for an undated
\* request, update for a dated one).
C24_UnparseableDatesAreAbsent ==
  [][ IsPlanCall(last')
      => LET a == last'.args
             c == last'
             outcome == ValidationOutcome(c)
         IN  /\ UnparseableToValidator(a.start_date)
                => /\ outcome
                        = _validate_trip_input(a.destination, None,
                                               a.end_date, a.duration_days,
                                               a.budget, utcnow(clock))
                   /\ outcome # None
                      => outcome[1].message \notin DateErrors
             /\ UnparseableToValidator(a.end_date)
                => /\ outcome
                        = _validate_trip_input(a.destination, a.start_date,
                                               None, a.duration_days,
                                               a.budget, utcnow(clock))
                   /\ outcome # None
                      => outcome[1].message
                           \notin { "end_not_after_start", "span_too_long" }
             /\ ( outcome = None /\ UnparseableToDedup(a.start_date) )
                => c.branch
                     = IF c.existing = None THEN "case1_insert"
                       ELSE IF HasMonthYear(trips[c.existing[1]].start_date)
                       THEN "case2_insert"
                       ELSE "case4_needs_clarification"
             /\ ( /\ outcome = None
                  /\ c.existing # None
                  /\ UnparseableToDedup(trips[c.existing[1]].start_date) )
                => c.branch
                     = IF HasMonthYear(a.start_date) THEN "case5_update"
                       ELSE "case4_needs_clarification"
    ]_vars

\* C24 witness: a request whose start_date is free text has been answered
\* needs_clarification against a stored trip whose start_date is free text.
C24_Witness ==
  /\ IsPlanCall(last)
  /\ last.branch = "case4_needs_clarification"
  /\ last.args.start_date = FreeText
  /\ last.existing # None
  /\ trips[last.existing[1]].start_date = FreeText

\* ------------------------------------------------------------------------
\* Outcomes of plan_and_save_trip (specification Spec)
\* ------------------------------------------------------------------------

PlanOutcomes ==
  { "validation_error", "created", "updated", "needs_clarification" }

\* C26: every plan_and_save_trip call returns one of validation_error,
\* created, updated and needs_clarification; when the matched planning trip
\* has a parseable start month/year and the request has none, the call
\* inserts a new trip and returns created, and the matched trip is unchanged.
C26_FourOutcomes ==
  [][ IsPlanCall(last')
      => /\ last'.result.status \in PlanOutcomes
         /\ ( /\ last'.existing # None
              /\ HasMonthYear(trips[last'.existing[1]].start_date)
              /\ ~HasMonthYear(last'.args.start_date) )
            => /\ last'.result.status = "created"
               /\ last'.result.trip_id \notin DOMAIN trips
               /\ DOMAIN trips' = DOMAIN trips \cup { last'.result.trip_id }
               /\ \A id \in DOMAIN trips : trips'[id] = trips[id]
               /\ trips'[last'.result.trip_id].start_date
                    = last'.args.start_date
    ]_vars

\* C26 witness: an undated request for Tokyo has been inserted as a new trip
\* next to the user's planning trip to Tokyo that has a start date.
C26_Witness ==
  /\ IsPlanCall(last)
  /\ last.args.start_date = None
  /\ last.result.status = "created"
  /\ last.existing # None
  /\ last.existing[1] # last.result.trip_id
  /\ HasMonthYear(trips[last.existing[1]].start_date)
  /\ trips[last.existing[1]].status = "planning"

\* ------------------------------------------------------------------------
\* Specification SpecFrame: a user plans one trip to Tokyo; notes, a
\* checklist, travel items and a manual activity are saved on it and
\* itineraries are generated for it
\* ------------------------------------------------------------------------

GeneratedKeys == { "itinerary", "flights", "hotels", "itinerary_config" }

PlanFramed ==
  /\ trips = <<>>
  /\ \E duration_days \in { None, Some(7) } :
       plan_and_save_trip(Tokyo, 1, March1, None, duration_days,
                          Some(200000), 2, Some(FoodCulture), Some("JPN"))

PutNotes ==
  \E trip_id \in TripIds,
     notes \in { None, Some("window seat") },
     checklist \in { None, Some(<<"passport">>) },
     expenses \in { None, Some(<<"visa">>) } :
    api_update_trip(trip_id, [ NoUpdates EXCEPT !.notes = notes,
                                                !.checklist = checklist,
                                                !.expenses = expenses ])

SaveTravelItem ==
  \E trip_id \in TripIds, type \in { "flights", "hotels", "transport" } :
    /\ save_travel_item(trip_id, type, "suggestion_1")
    /\ \A id \in DOMAIN trips' :
         type \in DOMAIN trips'[id].trip_metadata
           => Len(trips'[id].trip_metadata[type]) <= MaxAdded + 1

FrameGenerateItinerary ==
  \E trip_id \in TripIds,
     completion \in { Raised,
                      Text("fence_json",
                           JsonObject(JsonList(GeneratedDays(2)),
                                      MockFlights, MockHotels)),
                      Text("bare",
                           JsonObject(JsonList(GeneratedDays(3)),
                                      None, None)) } :
    generate_itinerary(trip_id, None, completion)

NextFrame == PlanFramed \/ PutNotes \/ SaveTravelItem \/ FrameGenerateItinerary

SpecFrame == Init /\ [][NextFrame]_vars

read_trip(client, op, trip_id, input) ==
  LET args == [ trip_id |-> trip_id, input |-> input ]
      found == find_trip(trip_id)
  IN  IF found = None
      THEN /\ last' = Call(op, args, NotFound(trip_id), None, "not_found")
           /\ UNCHANGED <<trips, next_id, clock, inflight>>
      ELSE /\ inflight' = inflight
                          \cup { [ client |-> client, op |-> op,
                                   trip_id |-> trip_id,
                                   trip |-> trips[trip_id],
                                   input |-> input ] }
           /\ last' = Call(op, args, None, found, "read")
           /\ UNCHANGED <<trips, next_id, clock>>

\* the metadata a request in flight commits: what it read, with its change
committed_metadata_from_empty(self, completion) ==
  IF self.op = "generate_itinerary"
  THEN generated_metadata(self.trip, <<>>, completion.value,
                          trip_duration_of(self.trip))
  ELSE [ itinerary |-> itinerary_with_activity(self.trip, self.input) ]

committed_metadata(self, completion) ==
  IF self.op = "generate_itinerary"
  THEN generated_metadata(self.trip, self.trip.trip_metadata,
                          completion.value, trip_duration_of(self.trip))
  ELSE md_put(self.trip.trip_metadata, "itinerary",
              itinerary_with_activity(self.trip, self.input))

\* the rest of the handler: generate_itinerary after the text-generation
\* call has returned (completion), add_activity up to its commit; the UPDATE
\* writes the trip_metadata column
commit_trip(self, completion) ==
  LET args == [ trip_id |-> self.trip_id, input |-> self.input ]
  IN  /\ self \in inflight
      /\ inflight' = inflight \ {self}
      /\ IF self.op = "generate_itinerary" /\ completion.kind = "raised"
         THEN /\ last' = Call(self.op, args,
                              GenerationError("Failed to generate itinerary"),
                              Some(self.trip_id), "call_failed")
              /\ UNCHANGED <<trips, next_id, clock>>
         ELSE /\ trips' = [ trips EXCEPT ![self.trip_id].trip_metadata =
                              committed_metadata(self, completion) ]
              /\ last' = Call(self.op, args, None, Some(self.trip_id),
                              "committed")
              /\ UNCHANGED <<next_id, clock>>

\* ------------------------------------------------------------------------
\* Specification SpecConcurrent: one trip to Tokyo; notes and transport are
\* saved, and itinerary generations and activity additions overlap them and
\* each other
\* ------------------------------------------------------------------------

\* the id of the trip and an id that is not in the store
ConcurrentTripIds == { 1, 2 }

\* the clients and the time of the activity each of them adds
Clients == { "a", "b" }

ActivityTimeOf == [ a |-> Time("1","0","3","0"), b |-> Time("1","2","0","0") ]

\* the input of a request that carries no activity
NoActivity == [ day |-> 0, time |-> <<>>, type |-> "none" ]

TwoDays ==
  Text("fence_json",
       JsonObject(JsonList(GeneratedDays(2)), MockFlights, MockHotels))

ConcurrentPlan ==
  /\ trips = <<>>
  /\ plan_and_save_trip(Tokyo, 1, March1, None, None, None, 1, None, None)

ConcurrentPutNotes ==
  \E trip_id \in ConcurrentTripIds :
    /\ trip_id \in DOMAIN trips
          => "notes" \notin DOMAIN trips[trip_id].trip_metadata
    /\ api_update_trip(trip_id,
                       [ NoUpdates EXCEPT !.notes = Some("window seat") ])

ConcurrentSaveTransport ==
  \E trip_id \in ConcurrentTripIds :
    /\ save_travel_item(trip_id, "transport", "suggestion_1")
    /\ \A id \in DOMAIN trips' :
         "transport" \in DOMAIN trips'[id].trip_metadata
           => Len(trips'[id].trip_metadata["transport"]) <= MaxAdded

\* a client waits for the answer to its request before it sends the next
Idle(client) == \A self \in inflight : self.client # client

BeginGenerate ==
  \E client \in Clients, trip_id \in ConcurrentTripIds :
    /\ Idle(client)
    /\ trip_id \in DOMAIN trips
          => "itinerary_config" \notin DOMAIN trips[trip_id].trip_metadata
    /\ read_trip(client, "generate_itinerary", trip_id, NoActivity)

BeginAddActivity ==
  \E client \in Clients, trip_id \in ConcurrentTripIds :
    /\ Idle(client)
    /\ read_trip(client, "add_activity", trip_id,
                 [ day |-> 1, time |-> ActivityTimeOf[client],
                   type |-> "dining" ])

Commit ==
  \E self \in inflight, completion \in { Raised, TwoDays } :
    /\ commit_trip(self, completion)
    /\ \A id \in DOMAIN trips' :
         Cardinality(manual_activities(trips'[id])) <= MaxAdded

NextConcurrent ==
  \/ ConcurrentPlan
  \/ ConcurrentPutNotes
  \/ ConcurrentSaveTransport
  \/ BeginGenerate
  \/ BeginAddActivity
  \/ Commit

SpecConcurrent == Init /\ [][NextConcurrent]_vars

\* the metadata keys a request writes
WrittenKeys(self) ==
  IF self.op = "generate_itinerary" THEN GeneratedKeys ELSE { "itinerary" }

\* the activities of a metadata dict, each with the number of its day
activities_of(md) ==
  LET itinerary == itinerary_of(md)
  IN  UNION { { << itinerary[d].day, itinerary[d].activities[i] >> :
                  i \in 1..Len(itinerary[d].activities) } :
              d \in 1..Len(itinerary) }

\* the commit of request self keeps what the store held just before it: the
\* keys the request does not write, and for add_activity the activities
KeepsCommitted(self) ==
  LET before == trips[self.trip_id].trip_metadata
      after == trips'[self.trip_id].trip_metadata
  IN  /\ \A k \in DOMAIN before \ WrittenKeys(self) :
           k \in DOMAIN after /\ after[k] = before[k]
      /\ self.op = "add_activity"
         => activities_of(before) \subseteq activities_of(after)

TripTools ==
  { "plan_and_save_trip", "update_trip", "get_trip_details",
    "generate_itinerary" }

\* C29: an agent bound to user U never reads or modifies a trip owned by
\* another user: the trip context it loads belongs to U, the trip a tool
\* call of the agent finds, returns or updates belongs to U whatever trip id
\* the call carries, and no tool call changes a trip of another user.
C29_AgentStaysWithinItsUser ==
  [][ \A self \in inflight :
        ( self.op = "chat_with_agent" /\ self.stage = "agent" )
        => /\ self.trip_context # None
              => trips[self.trip_context[1].id].user_id = self.user_id
           /\ ( last'.op \in TripTools /\ self \in inflight' )
              => /\ last'.existing # None
                    => trips[last'.existing[1]].user_id = self.user_id
                 /\ \A id \in DOMAIN trips :
                      trips[id].user_id # self.user_id
                      => trips'[id] = trips[id]
    ]_vars

\* ------------------------------------------------------------------------
\* DELETE /api/trips/{trip_id}/activities/{activity_id}
\* ------------------------------------------------------------------------

\* [a for a in activities if a.get("id") != activity_id]
RECURSIVE without_id(_, _)
without_id(activities, activity_id) ==
  IF activities = <<>> THEN <<>>
  ELSE IF Head(activities).id # activity_id
  THEN << Head(activities) >> \o without_id(Tail(activities), activity_id)
  ELSE without_id(Tail(activities), activity_id)

\* the loop that drops the day entries it leaves without activities
RECURSIVE remove_activity_and_empty_days(_, _)
remove_activity_and_empty_days(itinerary, activity_id) ==
  IF itinerary = <<>> THEN <<>>
  ELSE LET day_entry == Head(itinerary)
           activities == without_id(day_entry.activities, activity_id)
           rest == remove_activity_and_empty_days(Tail(itinerary),
                                                  activity_id)
       IN  IF activities = <<>> THEN rest
           ELSE << [ day_entry EXCEPT !.activities = activities ] >> \o rest

\* the loop over the day entries: updated_itinerary
RECURSIVE remove_activity(_, _)
remove_activity(itinerary, activity_id) ==
  IF itinerary = <<>> THEN <<>>
  ELSE LET day_entry == Head(itinerary)
           activities == without_id(day_entry.activities, activity_id)
       IN  << [ day_entry EXCEPT !.activities = activities ] >>
           \o remove_activity(Tail(itinerary), activity_id)

\* HTTPException(status_code=404, detail="Activity ... not found")
ActivityNotFound(activity_id) ==
  [ status_code |-> 404, activity_id |-> activity_id ]

\* main.delete_activity
delete_activity(trip_id, activity_id) ==
  LET args == [ trip_id |-> trip_id, activity_id |-> activity_id ]
      trip == find_trip(trip_id)
  IN
  IF trip = None
  THEN /\ last' = Call("delete_activity", args, HTTP404(trip_id), None,
                       "not_found")
       /\ UNCHANGED <<trips, next_id, clock, inflight>>
  ELSE
  LET itinerary == itinerary_of(trips[trip[1]].trip_metadata)
      found == \E d \in 1..Len(itinerary) :
                 Len(without_id(itinerary[d].activities, activity_id))
                   # Len(itinerary[d].activities)
      t == [ trips[trip[1]] EXCEPT !.trip_metadata =
               md_put(@, "itinerary",
                      remove_activity(itinerary, activity_id)) ]
  IN
  IF ~found
  THEN /\ last' = Call("delete_activity", args,
                       ActivityNotFound(activity_id), trip,
                       "activity_not_found")
       /\ UNCHANGED <<trips, next_id, clock, inflight>>
  ELSE /\ trips' = [trips EXCEPT ![trip[1]] = t]
       /\ last' = Call("delete_activity", args, t, trip, "deleted")
       /\ UNCHANGED <<next_id, clock, inflight>>

\* ------------------------------------------------------------------------
\* Specification SpecDelete: a user plans one trip to Tokyo, itineraries are
\* generated for it, activities are added to it and deleted from it
\* ------------------------------------------------------------------------

\* an itinerary of two days in which the service used the id of the first
\* activity of day 1 again on day 2
RepeatedIdDays ==
  << GeneratedDay(1),
     [ GeneratedDay(2) EXCEPT
         !.activities = << GeneratedActivity(1, 1, Time("0","8","0","0")),
                           GeneratedActivity(2, 2, Time("1","4","0","0")) >> ] >>

\* an itinerary of two days whose day 1 holds a single activity
OneActivityDay ==
  << [ GeneratedDay(1) EXCEPT
         !.activities = << GeneratedActivity(1, 1, Time("0","9","0","0")) >> ],
     GeneratedDay(2) >>

\* the activity ids of the requests: generated ids, a manual id and an id
\* that no activity has
DeletableIds ==
  { [src |-> "act", day |-> 1, n |-> 1], [src |-> "act", day |-> 2, n |-> 2],
    [src |-> "manual", day |-> 0, n |-> 1],
    [src |-> "act", day |-> 9, n |-> 9] }

DeletePlan ==
  /\ trips = <<>>
  /\ plan_and_save_trip(Tokyo, 1, March1, None, Some(3), None, 1,
                        Some(FoodCulture), None)

DeleteGenerate ==
  \E trip_id \in TripIds, itinerary \in { RepeatedIdDays, OneActivityDay } :
    generate_itinerary(trip_id, None,
      Text("bare", JsonObject(JsonList(itinerary), MockFlights, None)))

DeleteAddActivity ==
  \E trip_id \in TripIds, day \in { 1, 3 } :
    /\ add_activity(trip_id, [ day |-> day, time |-> Time("1","0","3","0"),
                               type |-> "dining" ])
    /\ \A id \in DOMAIN trips' :
         Cardinality(manual_activities(trips'[id])) <= MaxAdded

DeleteActivity ==
  \E trip_id \in TripIds, activity_id \in DeletableIds :
    delete_activity(trip_id, activity_id)

NextDelete ==
  DeletePlan \/ DeleteGenerate \/ DeleteAddActivity \/ DeleteActivity

SpecDelete == Init /\ [][NextDelete]_vars

=============================================================================
